---- MODULE Spec2Model ----
(***************************************************************************)
(* SshRemoteCode: the session (SshConnection), the executor                *)
(* (RemoteExecutor: runner provisioning, calls, result decoding), the      *)
(* transparent proxy (RemoteProxy) and the facade (SshRemoteCode).         *)
(*                                                                         *)
(* Text (stdout, stderr, runner output) is a sequence of lexemes: each     *)
(* lexeme is an atomic piece of text ("{", "\"success\"", "true", ...).    *)
(* No lexeme other than LB, RB and KSuccess contains a brace or the text   *)
(* "success" in quotes, so the regular expression of parseResult and the   *)
(* line splitting of filterLogLines act on lexemes as they act on          *)
(* characters.                                                             *)
(***************************************************************************)
EXTENDS Integers, Sequences, FiniteSets, TLC

\* ------------------------------------------------------------------ bounds
MaxConnects == 2      \* connect requests issued in one behaviour
MaxCalls == 2         \* execute / executeFunction calls issued
MaxDisconnects == 1   \* facade disconnect requests issued
MaxImports == 2       \* RemoteProxy instances created (facade imports)
MaxHandles == 2       \* Proxy objects created
MaxOps == 1           \* runCommand / uploadFile / downloadFile requests issued
MaxNoise == 1         \* pieces of noise before and after the envelope in a channel's output
MaxPaths == 2         \* distinct values crypto.randomBytes may yield

ConnIds == 1..MaxConnects
CallIds == 1..MaxCalls
DiscIds == 1..MaxDisconnects
ProxyIds == 1..MaxImports
HandleIds == 1..MaxHandles
OpIds == 1..MaxOps
PathIds == 1..MaxPaths

Kinds == {"Code", "Function"}

VARIABLES
    \* SshConnection
    connected,      \* this.connected
    connecting,     \* this.connecting
    pending,        \* transport side: connect attempts started by client.connect, not yet answered
    timers,         \* connect requests whose setTimeout is armed
    readyH,         \* connect requests whose once('ready') listener is registered
    errorH,         \* connect requests whose once('error') listener is registered
    closeH,         \* disconnect requests whose once('close') listener is registered
    creq,           \* per connect request: its position, the attempt it waits for (att)
                    \* and the value its promise resolved with
    \* RemoteExecutor
    runnerPath,     \* kind -> memoized path (0 = null): codeRunnerScriptPath / runnerScriptPath
    files,          \* remote side: runner files whose upload completed, <<kind, path>>
    deleted,        \* remote side: runner files for which an rm -f was requested
    overlap,        \* kind -> some call of the kind started while another was provisioning
    nExec,          \* number of client.exec requests (process channels asked for)
    nSftp,          \* number of client.sftp requests (bulk-transfer channels asked for)
    calls,          \* per call: kind, position, payload, runner path, result
    dreq,           \* per facade disconnect: position, files left to delete, result
    mreq,           \* per runCommand / uploadFile / downloadFile: position, result
    \* RemoteProxy / facade import
    proxies,        \* RemoteProxy instances: module path and cache (0 = empty)
    handles,        \* handle identity -> module path of the Proxy object
    lastImport,     \* what the last import / createProxy returned
    got,            \* value of the last property read on a handle
    \* one process channel of a call, and the result decoder
    inp,            \* what the runner writes on its output: noise, envelope, noise
    stdout,         \* the close handler's stdout: output text received so far
    stderr,         \* the close handler's stderr: diagnostic text received so far
    decoded,        \* what the 'close' listener computed and resolved the call with
    diag,           \* what the runner writes on its diagnostic stream: lines and an unterminated tail
    undelivered,    \* text written by the runner and not yet delivered in a 'data' event
    ended,          \* the stream's 'end' event was emitted
    observer,       \* console calls made by processRemoteLogs, in order
    streamRemoteLogs, \* this.streamRemoteLogs
    streams,        \* per call: what its runner wrote and has not been delivered yet, the
                    \* close handler's stdout and stderr, the exit status given with 'close'
    \* configuration
    config,         \* the configuration given to SshRemoteCode.create
    keyFileExists,  \* fs.existsSync(path.resolve(config.privateKey))
    validated,      \* how the call of validateConfig ended
    created         \* how SshConnection.create and SshRemoteCode.create ended

connVars == <<connected, connecting, pending, timers, readyH, errorH, closeH, creq>>
execVars == <<runnerPath, files, deleted, overlap, nExec, nSftp, calls, dreq, mreq>>
proxyVars == <<proxies, handles, lastImport, got>>
decodeVars == <<inp, stdout, stderr, decoded, diag, undelivered, ended, observer, streamRemoteLogs, streams>>
configVars == <<config, keyFileExists, validated, created>>
vars == <<connVars, execVars, proxyVars, decodeVars, configVars>>

\* ------------------------------------------------------------ error values
\* types.ts RemoteError: code and message (details kept where a claim reads them)
Err(code, message) == [ok |-> FALSE, code |-> code, message |-> message]
Ok == [ok |-> TRUE, code |-> "", message |-> ""]
NoResult == [ok |-> FALSE, code |-> "PENDING", message |-> ""]

NotConnectedFacade == Err("NOT_CONNECTED", "Not connected. Call connect() first.")
NotConnectedClient == Err("NOT_CONNECTED", "SSH connection not established. Call connect() first.")

\* ------------------------------------------------------------ configuration
\* config.ts, the values validateConfig puts where a field is omitted
DefaultPort == 22
DefaultConnectTimeout == 10000
DefaultReadyTimeout == 20000

\* an omitted (or empty) string field is "", an omitted number is 0
NoConfig ==
    [host |-> "", port |-> 0, username |-> "", privateKey |-> "", password |-> "",
     sandboxPath |-> "", connectTimeout |-> 0, readyTimeout |-> 0]

\* the configuration of the session the other operations run in
SessionConfig ==
    [host |-> "10.0.0.1", port |-> 0, username |-> "user", privateKey |-> "-----BEGIN KEY",
     password |-> "", sandboxPath |-> "/sandbox", connectTimeout |-> 0, readyTimeout |-> 0]

\* config.privateKey.includes('-----BEGIN')
IsKeyContent(key) == key \in {"-----BEGIN KEY", "-----BEGIN FILE KEY"}
\* fs.readFileSync(keyPath, 'utf8')
KeyFileContent == "-----BEGIN FILE KEY"

Threw(message) == [done |-> TRUE, threw |-> TRUE, message |-> message, value |-> NoConfig]
Returned(value) == [done |-> TRUE, threw |-> FALSE, message |-> "", value |-> value]
NotValidated == [done |-> FALSE, threw |-> FALSE, message |-> "", value |-> NoConfig]

\* validateConfig(config): throws an Error, or returns the normalized configuration
validateConfig(cfg, exists) ==
    IF cfg.host = "" THEN Threw("SSH host is required")
    ELSE IF cfg.username = "" THEN Threw("SSH username is required")
    ELSE IF cfg.privateKey = "" /\ cfg.password = ""
         THEN Threw("Either privateKey or password must be provided")
    ELSE IF cfg.sandboxPath = "" THEN Threw("sandboxPath is required")
    ELSE IF cfg.privateKey # "" /\ ~IsKeyContent(cfg.privateKey) /\ ~exists
         THEN Threw("Private key file not found")
    ELSE Returned([host |-> cfg.host,
                   port |-> IF cfg.port = 0 THEN DefaultPort ELSE cfg.port,
                   username |-> cfg.username,
                   privateKey |-> IF cfg.privateKey # "" /\ ~IsKeyContent(cfg.privateKey)
                                  THEN KeyFileContent ELSE cfg.privateKey,
                   password |-> cfg.password,
                   sandboxPath |-> cfg.sandboxPath,
                   connectTimeout |-> IF cfg.connectTimeout = 0 THEN DefaultConnectTimeout
                                      ELSE cfg.connectTimeout,
                   readyTimeout |-> IF cfg.readyTimeout = 0 THEN DefaultReadyTimeout
                                    ELSE cfg.readyTimeout])

\* what a create returns: "thrown" when the exception of validateConfig leaves it,
\* "config" when it returns the object validateConfig returned
NotCreated == [done |-> FALSE, kind |-> "none", ok |-> FALSE, code |-> "", session |-> FALSE]
CreateThrew == [done |-> TRUE, kind |-> "thrown", ok |-> FALSE, code |-> "", session |-> FALSE]
CreateReturnedConfig ==
    [done |-> TRUE, kind |-> "config", ok |-> FALSE, code |-> "", session |-> FALSE]

\* the call validateConfig(config) of SshConnection.create
Validate ==
    /\ ~validated.done
    /\ validated' = validateConfig(config, keyFileExists)
    /\ UNCHANGED <<config, keyFileExists, created>>
    /\ UNCHANGED <<connVars, execVars, proxyVars, decodeVars>>

\* the rest of SshConnection.create and of SshRemoteCode.create:
\* if (!validated.ok) return validated, if (!connRes.ok) return connRes.
\* The object validateConfig returns has no ok field, so that both tests succeed.
Create ==
    /\ validated.done
    /\ ~created.done
    /\ created' = IF validated.threw THEN CreateThrew ELSE CreateReturnedConfig
    /\ UNCHANGED <<config, keyFileExists, validated>>
    /\ UNCHANGED <<connVars, execVars, proxyVars, decodeVars>>

\* ------------------------------------------------------------ SshConnection

\* an isConnected() that also answers true while a connect attempt is in flight
\* (a faulty variant)
isConnectedOrConnecting == connected \/ connecting

\* isConnected()
isConnected == connected

\* getClient(): an error value when not connected
getClient == IF ~connected THEN NotConnectedClient ELSE Ok

\* resolve(v) of a connect promise: the first resolution wins
ResolveConn(q, rs, v) ==
    [r \in ConnIds |->
        IF r \in rs /\ q[r].pc \in {"owner", "join"}
        THEN [q[r] EXCEPT !.pc = "done", !.res = v]
        ELSE q[r]]

\* connect(), first return: already connected
ConnectAlready(r) ==
    /\ creq[r].pc = "idle"
    /\ \A r2 \in ConnIds : r2 < r => creq[r2].pc # "idle"
    /\ connected
    /\ creq' = [creq EXCEPT ![r] = [pc |-> "done", att |-> 0, res |-> Ok]]
    /\ UNCHANGED <<connected, connecting, pending, timers, readyH, errorH, closeH>>
    /\ UNCHANGED <<execVars, proxyVars, decodeVars, configVars>>

\* the connect request whose attempt is in flight (this.connecting is its flag)
InFlight == CHOOSE o \in ConnIds : creq[o].pc = "owner"

\* connect(), join branch: an attempt is in flight, poll every 100 ms
ConnectJoin(r) ==
    /\ creq[r].pc = "idle"
    /\ \A r2 \in ConnIds : r2 < r => creq[r2].pc # "idle"
    /\ ~connected
    /\ connecting
    /\ creq' = [creq EXCEPT ![r] = [pc |-> "join", att |-> InFlight, res |-> NoResult]]
    /\ UNCHANGED <<connected, connecting, pending, timers, readyH, errorH, closeH>>
    /\ UNCHANGED <<execVars, proxyVars, decodeVars, configVars>>

\* connect(), owner branch: set connecting, arm the timer, client.connect,
\* register once('ready') and once('error')
ConnectStartBody(r) ==
    /\ connecting' = TRUE
    /\ timers' = timers \cup {r}
    /\ pending' = pending \cup {r}
    /\ readyH' = readyH \cup {r}
    /\ errorH' = errorH \cup {r}
    /\ creq' = [creq EXCEPT ![r] = [pc |-> "owner", att |-> r, res |-> NoResult]]

ConnectStart(r) ==
    /\ creq[r].pc = "idle"
    /\ \A r2 \in ConnIds : r2 < r => creq[r2].pc # "idle"
    /\ ~connected
    /\ ~connecting
    /\ ConnectStartBody(r)
    /\ UNCHANGED <<connected, closeH>>
    /\ UNCHANGED <<execVars, proxyVars, decodeVars, configVars>>

\* a setInterval callback that answers only when the session is connected
\* (a faulty variant)
PollTickConnectedOnly(r) ==
    /\ creq[r].pc = "join"
    /\ connected
    /\ creq' = [creq EXCEPT ![r].pc = "done", ![r].res = Ok]
    /\ UNCHANGED <<connected, connecting, pending, timers, readyH, errorH, closeH>>
    /\ UNCHANGED <<execVars, proxyVars, decodeVars, configVars>>

\* setInterval callback of a joined request
PollTick(r) ==
    /\ creq[r].pc = "join"
    /\ \/ connected /\ creq' = [creq EXCEPT ![r].pc = "done", ![r].res = Ok]
       \/ ~connected /\ ~connecting
          /\ creq' = [creq EXCEPT ![r].pc = "done",
                 ![r].res = Err("CONNECTION_ERROR", "Connection failed while waiting for ongoing attempt")]
    /\ UNCHANGED <<connected, connecting, pending, timers, readyH, errorH, closeH>>
    /\ UNCHANGED <<execVars, proxyVars, decodeVars, configVars>>

\* setTimeout callback of an owner request: connecting = false, resolve(timeout).
\* Nothing is done to the transport and no listener is removed.
ConnectTimeoutBody(r) ==
    /\ connecting' = FALSE
    /\ timers' = timers \ {r}
    /\ creq' = ResolveConn(creq, {r}, Err("CONNECTION_ERROR", "Connection timeout"))

ConnectTimeout(r) ==
    /\ r \in timers
    /\ ConnectTimeoutBody(r)
    /\ UNCHANGED <<connected, pending, readyH, errorH, closeH>>
    /\ UNCHANGED <<execVars, proxyVars, decodeVars, configVars>>

\* 'ready' listeners that leave this.connecting as it is (a faulty variant)
ReadyListenersKeepConnecting ==
    /\ timers' = timers \ readyH
    /\ connected' = (IF readyH # {} THEN TRUE ELSE connected)
    /\ connecting' = connecting
    /\ creq' = ResolveConn(creq, readyH, Ok)
    /\ readyH' = {}

\* the client emits 'ready' for attempt a: every registered once('ready')
\* listener runs (clearTimeout, connected = true, connecting = false, resolve(ok))
ReadyListeners ==
    /\ timers' = timers \ readyH
    /\ connected' = (IF readyH # {} THEN TRUE ELSE connected)
    /\ connecting' = (IF readyH # {} THEN FALSE ELSE connecting)
    /\ creq' = ResolveConn(creq, readyH, Ok)
    /\ readyH' = {}

TransportReady(a) ==
    /\ a \in pending
    /\ pending' = pending \ {a}
    /\ ReadyListeners
    /\ UNCHANGED <<errorH, closeH>>
    /\ UNCHANGED <<execVars, proxyVars, decodeVars, configVars>>

ErrorListenersKeepConnected ==
    /\ connected' = connected
    /\ timers' = timers \ errorH
    /\ connecting' = (IF errorH # {} THEN FALSE ELSE connecting)
    /\ creq' = ResolveConn(creq, errorH, Err("CONNECTION_ERROR", "SSH connection error"))
    /\ errorH' = {}

\* the client emits 'error': the constructor's listener (connected = false) and
\* every registered once('error') listener (clearTimeout, connecting = false, resolve(err))
ErrorListeners ==
    /\ connected' = FALSE
    /\ timers' = timers \ errorH
    /\ connecting' = (IF errorH # {} THEN FALSE ELSE connecting)
    /\ creq' = ResolveConn(creq, errorH, Err("CONNECTION_ERROR", "SSH connection error"))
    /\ errorH' = {}

\* 'error' that ends the connect attempt a
AttemptError(a) ==
    /\ a \in pending
    /\ pending' = pending \ {a}
    /\ ErrorListeners
    /\ UNCHANGED <<readyH, closeH>>
    /\ UNCHANGED <<execVars, proxyVars, decodeVars, configVars>>

\* 'error' on the established connection
SessionError ==
    /\ connected
    /\ ErrorListeners
    /\ UNCHANGED <<pending, readyH, closeH>>
    /\ UNCHANGED <<execVars, proxyVars, decodeVars, configVars>>

\* the client emits 'end': connected = false
TransportEnd ==
    /\ connected
    /\ connected' = FALSE
    /\ UNCHANGED <<connecting, pending, timers, readyH, errorH, closeH, creq>>
    /\ UNCHANGED <<execVars, proxyVars, decodeVars, configVars>>

\* ------------------------------------------------------------------ text
LB == "{"
RB == "}"
LBR == "["
RBR == "]"
COLON == ":"
COMMA == ","
SP == " "
NL == "\n"
KSuccess == "\"success\""
SENTINEL == "__REMOTE_LOG__:"

Whitespace == {SP, NL}

\* string literals of the texts considered, with the string each denotes
StrVal ==
    [l \in {"\"success\"", "\"result\"", "\"error\"", "\"message\"", "\"stack\"",
            "\"name\"", "\"bad input\"", "\"x\"", "\"k\"", "\"Error\"", "\"at f\"",
            "\"type\"", "\"args\"", "\"log\"", "\"warn\"", "\"\""} |->
        CASE l = "\"success\"" -> "success"
          [] l = "\"result\"" -> "result"
          [] l = "\"error\"" -> "error"
          [] l = "\"message\"" -> "message"
          [] l = "\"stack\"" -> "stack"
          [] l = "\"name\"" -> "name"
          [] l = "\"bad input\"" -> "bad input"
          [] l = "\"x\"" -> "x"
          [] l = "\"k\"" -> "k"
          [] l = "\"Error\"" -> "Error"
          [] l = "\"at f\"" -> "at f"
          [] l = "\"type\"" -> "type"
          [] l = "\"args\"" -> "args"
          [] l = "\"log\"" -> "log"
          [] l = "\"warn\"" -> "warn"
          [] l = "\"\"" -> ""]
StrLex == DOMAIN StrVal

\* number literals, with the canonical numeral of the number each denotes
NumVal == [l \in {"1", "2", "3", "5", "1e0"} |-> IF l = "1e0" THEN "1" ELSE l]
NumLex == DOMAIN NumVal

\* ------------------------------------------------------------ JSON values
\* A JavaScript value is [t, v, kids]: v is text (a number's canonical numeral, a
\* string's text, a boolean's literal, an object's keys), kids are the values of an
\* object's keys or an array's elements. The keys of an object are kept in the
\* order of KeyOrder, so that equal objects are equal records.
KeyOrder ==
    <<"success", "result", "error", "message", "stack", "name", "k", "type", "args",
      "x", "bad input", "Error", "at f", "log", "warn", "">>

JNum(numeral) == [t |-> "num", v |-> <<numeral>>, kids |-> <<>>]
JStr(text) == [t |-> "str", v |-> text, kids |-> <<>>]
\* the string a string literal denotes: the empty string is the empty text
JStrOf(str) == JStr(IF str = "" THEN <<>> ELSE <<str>>)
JBool(b) == [t |-> "bool", v |-> <<IF b THEN "true" ELSE "false">>, kids |-> <<>>]
JNull == [t |-> "null", v |-> <<>>, kids |-> <<>>]
JUndef == [t |-> "undefined", v |-> <<>>, kids |-> <<>>]
JArr(s) == [t |-> "arr", v |-> <<>>, kids |-> s]
\* the object whose keys are DOMAIN f and whose values are f
JObj(f) ==
    LET keys == SelectSeq(KeyOrder, LAMBDA k : k \in DOMAIN f)
    IN [t |-> "obj", v |-> keys, kids |-> [i \in 1..Len(keys) |-> f[keys[i]]]]

\* o[key], undefined when o is no object or lacks the key (optional chaining included)
Get(o, key) ==
    IF o.t = "obj" /\ \E i \in 1..Len(o.v) : o.v[i] = key
    THEN o.kids[CHOOSE i \in 1..Len(o.v) : o.v[i] = key]
    ELSE JUndef

\* JavaScript truthiness
Truthy(x) ==
    CASE x.t = "bool" -> x.v = <<"true">>
      [] x.t = "num" -> x.v # <<"0">>
      [] x.t = "str" -> x.v # <<>>
      [] x.t \in {"null", "undefined"} -> FALSE
      [] OTHER -> TRUE

\* ------------------------------------------------------------ JSON.parse
SkipWs(s, i) ==
    LET rest == {j \in i..Len(s) : s[j] \notin Whitespace}
    IN IF rest = {} THEN Len(s) + 1 ELSE CHOOSE j \in rest : \A j2 \in rest : j <= j2

ParseFail == [ok |-> FALSE, val |-> JUndef, next |-> 0]

RECURSIVE ParseValue(_, _)
RECURSIVE ParseMembers(_, _, _)
RECURSIVE ParseElems(_, _, _)

\* members of an object after "{" or ","; acc is the sequence of <<key, value>> read
ParseMembers(s, i0, acc) ==
    LET i == SkipWs(s, i0) IN
    IF i > Len(s) \/ s[i] \notin StrLex THEN ParseFail
    ELSE LET c == SkipWs(s, i + 1) IN
         IF c > Len(s) \/ s[c] # COLON THEN ParseFail
         ELSE LET r == ParseValue(s, c + 1) IN
              IF ~r.ok THEN ParseFail
              ELSE LET acc2 == Append(acc, <<StrVal[s[i]], r.val>>)
                       n == SkipWs(s, r.next)
                   IN IF n > Len(s) THEN ParseFail
                      ELSE IF s[n] = COMMA THEN ParseMembers(s, n + 1, acc2)
                      ELSE IF s[n] = RB
                           THEN [ok |-> TRUE,
                                 val |-> JObj([k \in {acc2[m][1] : m \in 1..Len(acc2)} |->
                                     \* a repeated key keeps its last value
                                     LET last == CHOOSE m \in 1..Len(acc2) :
                                             /\ acc2[m][1] = k
                                             /\ \A m2 \in 1..Len(acc2) : acc2[m2][1] = k => m2 <= m
                                     IN acc2[last][2]]),
                                 next |-> n + 1]
                      ELSE ParseFail

ParseElems(s, i0, acc) ==
    LET r == ParseValue(s, i0) IN
    IF ~r.ok THEN ParseFail
    ELSE LET acc2 == Append(acc, r.val)
             n == SkipWs(s, r.next)
         IN IF n > Len(s) THEN ParseFail
            ELSE IF s[n] = COMMA THEN ParseElems(s, n + 1, acc2)
            ELSE IF s[n] = RBR THEN [ok |-> TRUE, val |-> JArr(acc2), next |-> n + 1]
            ELSE ParseFail

ParseValue(s, i0) ==
    LET i == SkipWs(s, i0) IN
    IF i > Len(s) THEN ParseFail
    ELSE CASE s[i] = "true" -> [ok |-> TRUE, val |-> JBool(TRUE), next |-> i + 1]
           [] s[i] = "false" -> [ok |-> TRUE, val |-> JBool(FALSE), next |-> i + 1]
           [] s[i] = "null" -> [ok |-> TRUE, val |-> JNull, next |-> i + 1]
           [] s[i] \in NumLex -> [ok |-> TRUE, val |-> JNum(NumVal[s[i]]), next |-> i + 1]
           [] s[i] \in StrLex -> [ok |-> TRUE, val |-> JStrOf(StrVal[s[i]]), next |-> i + 1]
           [] s[i] = LB ->
                LET n == SkipWs(s, i + 1) IN
                IF n <= Len(s) /\ s[n] = RB
                THEN [ok |-> TRUE, val |-> JObj([k \in {} |-> JUndef]), next |-> n + 1]
                ELSE ParseMembers(s, i + 1, <<>>)
           [] s[i] = LBR ->
                LET n == SkipWs(s, i + 1) IN
                IF n <= Len(s) /\ s[n] = RBR
                THEN [ok |-> TRUE, val |-> JArr(<<>>), next |-> n + 1]
                ELSE ParseElems(s, i + 1, <<>>)
           [] OTHER -> ParseFail

\* JSON.parse(text): [ok, val]; ok = FALSE is the SyntaxError it throws
JSONParse(s) ==
    LET r == ParseValue(s, 1) IN
    IF r.ok /\ SkipWs(s, r.next) > Len(s)
    THEN [ok |-> TRUE, val |-> r.val]
    ELSE [ok |-> FALSE, val |-> JUndef]

\* String.prototype.trim
Trim(s) ==
    LET keep == {j \in 1..Len(s) : s[j] \notin Whitespace} IN
    IF keep = {} THEN <<>>
    ELSE LET a == CHOOSE j \in keep : \A j2 \in keep : j <= j2
             b == CHOOSE j \in keep : \A j2 \in keep : j2 <= j
         IN SubSeq(s, a, b)

\* --------------------------------------------------- RemoteExecutor: decoding
\* stdout.match(/\{[\s\S]*"success"[\s\S]*\}/): the leftmost match, each star
\* greedy; <<>> stands for null (no match), a match is never empty
RegexMatches(s) ==
    {m \in (1..Len(s)) \X (1..Len(s)) :
        /\ s[m[1]] = LB
        /\ s[m[2]] = RB
        /\ \E j \in (m[1] + 1)..(m[2] - 1) : s[j] = KSuccess}

\* a match whose last star is lazy: it ends at the first "}" after "success"
\* (a faulty variant)
jsonMatchLazy(s) ==
    LET ms == RegexMatches(s) IN
    IF ms = {} THEN <<>>
    ELSE LET start == CHOOSE i \in {m[1] : m \in ms} : \A m \in ms : i <= m[1]
             end == CHOOSE k \in {m[2] : m \in {m2 \in ms : m2[1] = start}} :
                        \A m \in ms : m[1] = start => k <= m[2]
         IN SubSeq(s, start, end)

jsonMatch(s) ==
    LET ms == RegexMatches(s) IN
    IF ms = {} THEN <<>>
    ELSE LET start == CHOOSE i \in {m[1] : m \in ms} : \A m \in ms : i <= m[1]
             end == CHOOSE k \in {m[2] : m \in {m2 \in ms : m2[1] = start}} :
                        \A m \in ms : m[1] = start => m[2] <= k
         IN SubSeq(s, start, end)

UnableToParse == <<"Unable to parse JSON payload from remote output">>

\* the ExecutionResult returned when the matched text does not parse
parseFailure ==
    JObj([success |-> JBool(FALSE), error |-> JObj([message |-> JStr(UnableToParse)])])

\* a parseResult that looks at stderr before it looks for the JSON object
\* (a faulty variant)
parseResultStderrFirst(out, err) ==
    LET match == jsonMatch(out) IN
    IF err # <<>>
    THEN JObj([success |-> JBool(FALSE), error |-> JObj([message |-> JStr(err)])])
    ELSE IF match # <<>>
    THEN LET p == JSONParse(match) IN
         IF p.ok THEN p.val ELSE parseFailure
    ELSE IF Trim(out) # <<>>
    THEN LET p == JSONParse(Trim(out)) IN
         IF p.ok THEN JObj([success |-> JBool(TRUE), result |-> p.val])
         ELSE JObj([success |-> JBool(TRUE), result |-> JStr(Trim(out))])
    ELSE JObj([success |-> JBool(TRUE), result |-> JUndef])

\* a parseResult that looks at the trimmed stdout before it looks at stderr
\* (a faulty variant)
parseResultOutputFirst(out, err) ==
    LET match == jsonMatch(out) IN
    IF match # <<>>
    THEN LET p == JSONParse(match) IN
         IF p.ok THEN p.val ELSE parseFailure
    ELSE IF Trim(out) # <<>>
    THEN LET p == JSONParse(Trim(out)) IN
         IF p.ok THEN JObj([success |-> JBool(TRUE), result |-> p.val])
         ELSE JObj([success |-> JBool(TRUE), result |-> JStr(Trim(out))])
    ELSE IF err # <<>>
    THEN JObj([success |-> JBool(FALSE), error |-> JObj([message |-> JStr(err)])])
    ELSE JObj([success |-> JBool(TRUE), result |-> JUndef])

\* a parseResult that never tries the trimmed stdout as JSON (a faulty variant)
parseResultRawOnly(out, err) ==
    LET match == jsonMatch(out) IN
    IF match # <<>>
    THEN LET p == JSONParse(match) IN
         IF p.ok THEN p.val ELSE parseFailure
    ELSE IF err # <<>>
    THEN JObj([success |-> JBool(FALSE), error |-> JObj([message |-> JStr(err)])])
    ELSE IF Trim(out) # <<>>
    THEN JObj([success |-> JBool(TRUE), result |-> JStr(Trim(out))])
    ELSE JObj([success |-> JBool(TRUE), result |-> JUndef])

\* a parseResult that goes on to stderr and the trimmed stdout when the matched
\* text does not parse (a faulty variant)
parseResultFallsThrough(out, err) ==
    LET match == jsonMatch(out)
        p == JSONParse(match) IN
    IF match # <<>> /\ p.ok THEN p.val
    ELSE IF err # <<>>
    THEN JObj([success |-> JBool(FALSE), error |-> JObj([message |-> JStr(err)])])
    ELSE IF Trim(out) # <<>>
    THEN LET q == JSONParse(Trim(out)) IN
         IF q.ok THEN JObj([success |-> JBool(TRUE), result |-> q.val])
         ELSE JObj([success |-> JBool(TRUE), result |-> JStr(Trim(out))])
    ELSE JObj([success |-> JBool(TRUE), result |-> JUndef])

\* parseResult(stdout, stderr): an ExecutionResult, as a JavaScript object
parseResult(out, err) ==
    LET match == jsonMatch(out) IN
    IF match # <<>>
    THEN LET p == JSONParse(match) IN
         IF p.ok THEN p.val ELSE parseFailure
    ELSE IF err # <<>>
    THEN JObj([success |-> JBool(FALSE), error |-> JObj([message |-> JStr(err)])])
    ELSE IF Trim(out) # <<>>
    THEN LET p == JSONParse(Trim(out)) IN
         IF p.ok THEN JObj([success |-> JBool(TRUE), result |-> p.val])
         ELSE JObj([success |-> JBool(TRUE), result |-> JStr(Trim(out))])
    ELSE JObj([success |-> JBool(TRUE), result |-> JUndef])

\* String.prototype.split('\n'): the lines of s, at least one
RECURSIVE SplitLines(_)
SplitLines(s) ==
    LET nls == {j \in 1..Len(s) : s[j] = NL} IN
    IF nls = {} THEN <<s>>
    ELSE LET j == CHOOSE x \in nls : \A y \in nls : x <= y
         IN <<SubSeq(s, 1, j - 1)>> \o SplitLines(SubSeq(s, j + 1, Len(s)))

\* Array.prototype.join('\n')
RECURSIVE JoinLines(_)
JoinLines(ls) ==
    IF Len(ls) = 0 THEN <<>>
    ELSE IF Len(ls) = 1 THEN ls[1]
    ELSE ls[1] \o <<NL>> \o JoinLines(Tail(ls))

\* line.startsWith('__REMOTE_LOG__:')
startsWithSentinel(line) == Len(line) > 0 /\ line[1] = SENTINEL

\* Array.prototype.filter((line) => !line.startsWith('__REMOTE_LOG__:'))
RECURSIVE dropLogLines(_)
dropLogLines(ls) ==
    IF Len(ls) = 0 THEN <<>>
    ELSE (IF ~startsWithSentinel(ls[1]) THEN <<ls[1]>> ELSE <<>>) \o dropLogLines(Tail(ls))

\* a filterLogLines that drops only the first log line (a faulty variant)
filterLogLinesFirstOnly(err) ==
    LET ls == SplitLines(err)
        logs == {i \in 1..Len(ls) : startsWithSentinel(ls[i])}
    IN IF logs = {} THEN err
       ELSE LET i == CHOOSE x \in logs : \A y \in logs : x <= y
            IN JoinLines(SubSeq(ls, 1, i - 1) \o SubSeq(ls, i + 1, Len(ls)))

\* filterLogLines(stderr)
filterLogLines(err) == JoinLines(dropLogLines(SplitLines(err)))

\* the value a call resolves with at its channel's close: ok(parsed.result), or
\* err(EXECUTION_ERROR, parsed.error?.message || fallback, details: parsed.error)
CallOk(value) ==
    [ok |-> TRUE, code |-> "", message |-> JUndef, value |-> value, details |-> JUndef]
CallErr(code, message, details) ==
    [ok |-> FALSE, code |-> code, message |-> message, value |-> JUndef, details |-> details]
CallPending == CallErr("PENDING", JUndef, JUndef)

closeHandlerUnfiltered(out, err, fallback) ==
    LET parsed == parseResult(out, err) IN
    IF Truthy(Get(parsed, "success"))
    THEN CallOk(Get(parsed, "result"))
    ELSE LET m == Get(Get(parsed, "error"), "message") IN
         CallErr("EXECUTION_ERROR",
                 IF Truthy(m) THEN m ELSE JStr(<<fallback>>),
                 Get(parsed, "error"))

closeHandlerNoDetails(out, err, fallback) ==
    LET parsed == parseResult(out, filterLogLines(err)) IN
    IF Truthy(Get(parsed, "success"))
    THEN CallOk(Get(parsed, "result"))
    ELSE LET m == Get(Get(parsed, "error"), "message") IN
         CallErr("EXECUTION_ERROR", IF Truthy(m) THEN m ELSE JStr(<<fallback>>), JUndef)

closeHandlerWholeObject(out, err, fallback) ==
    LET parsed == parseResult(out, filterLogLines(err)) IN
    IF Truthy(Get(parsed, "success"))
    THEN CallOk(parsed)
    ELSE LET m == Get(Get(parsed, "error"), "message") IN
         CallErr("EXECUTION_ERROR",
                 IF Truthy(m) THEN m ELSE JStr(<<fallback>>),
                 Get(parsed, "error"))

closeHandler(out, err, fallback) ==
    LET parsed == parseResult(out, filterLogLines(err)) IN
    IF Truthy(Get(parsed, "success"))
    THEN CallOk(Get(parsed, "result"))
    ELSE LET m == Get(Get(parsed, "error"), "message") IN
         CallErr("EXECUTION_ERROR",
                 IF Truthy(m) THEN m ELSE JStr(<<fallback>>),
                 Get(parsed, "error"))

\* ------------------------------------------------- runner output (remote side)
\* JSON.stringify: a member whose value is undefined is left out
QuoteOf(str) == CHOOSE l \in StrLex : StrVal[l] = str

RECURSIVE Stringify(_)
RECURSIVE StringifyMembers(_, _, _)
RECURSIVE StringifyElems(_, _)

StringifyMembers(o, i, first) ==
    IF i > Len(o.v) THEN <<>>
    ELSE IF o.kids[i].t # "undefined"
         THEN (IF first THEN <<>> ELSE <<COMMA>>)
              \o <<QuoteOf(o.v[i]), COLON>> \o Stringify(o.kids[i])
              \o StringifyMembers(o, i + 1, FALSE)
         ELSE StringifyMembers(o, i + 1, first)

StringifyElems(s, i) ==
    IF i > Len(s) THEN <<>>
    ELSE (IF i = 1 THEN <<>> ELSE <<COMMA>>) \o Stringify(s[i]) \o StringifyElems(s, i + 1)

Stringify(x) ==
    CASE x.t = "num" -> x.v
      [] x.t = "str" -> <<QuoteOf(IF x.v = <<>> THEN "" ELSE x.v[1])>>
      [] x.t = "bool" -> x.v
      [] x.t = "null" -> <<"null">>
      [] x.t = "obj" -> <<LB>> \o StringifyMembers(x, 1, TRUE) \o <<RB>>
      [] x.t = "arr" -> <<LBR>> \o StringifyElems(x.kids, 1) \o <<RBR>>

\* process.stdout.write(JSON.stringify({ success: true, result }))
SuccessEnvelope(result) == JObj([success |-> JBool(TRUE), result |-> result])

\* process.stdout.write(JSON.stringify({ success: false, error: { message, stack, name } }))
FailureEnvelope(message, stack, name) ==
    JObj([success |-> JBool(FALSE),
          error |-> JObj([message |-> JStrOf(message), stack |-> JStrOf(stack),
                          name |-> JStrOf(name)])])

\* what one run of a runner leaves on its channel: output and diagnostic text
Responses ==
    {[out |-> Stringify(SuccessEnvelope(JNum("5"))), diag |-> <<>>],
     [out |-> Stringify(FailureEnvelope("bad input", "at f", "Error")), diag |-> <<>>],
     [out |-> <<>>, diag |-> <<"boom">>]}

\* ------------------------------------------------- RemoteExecutor: the calls
ModulePaths == {"./m", "./n"}
PropNames == {"foo", "bar", "then", "catch", "finally"}
ArgLists == {<<1, 2>>, <<2, 1>>}
\* code texts given to execute(code)
Codes == {"1+1", "process.exit()"}
SomeCode == "1+1"
\* this.sandboxPath
sandboxPath == "/sandbox"

\* the program text of the runner of kind k: CODE_RUNNER_SCRIPT / FUNCTION_RUNNER_SCRIPT
RunnerScript(k) ==
    IF k = "Code" THEN <<"CODE_RUNNER_SCRIPT">> ELSE <<"FUNCTION_RUNNER_SCRIPT">>

\* no text written to the channel's input yet
NoPayload ==
    [sandboxPath |-> "", code |-> "", modulePath |-> "", functionName |-> "", args |-> <<>>,
     streamLogs |-> FALSE]

IdleCall ==
    [kind |-> "none", pc |-> "idle", code |-> "", modulePath |-> "", functionName |-> "",
     args |-> <<>>, script |-> <<>>, payload |-> NoPayload,
     path |-> 0, up |-> FALSE, live |-> FALSE, execErr |-> FALSE, wrote |-> FALSE,
     parsed |-> FALSE, res |-> CallPending]

Msg(text) == JStr(<<text>>)
CallNotConnectedFacade == CallErr("NOT_CONNECTED", Msg("Not connected. Call connect() first."), JUndef)
CallNotConnectedClient ==
    CallErr("NOT_CONNECTED", Msg("SSH connection not established. Call connect() first."), JUndef)

UploadFailedMsg(k) ==
    IF k = "Code" THEN "Failed to upload code runner" ELSE "Failed to upload function runner"
ExecFailedMsg(k) ==
    IF k = "Code" THEN "Failed to start remote execution"
    ELSE "Failed to start remote function execution"
FallbackMsg(k) == IF k = "Code" THEN "Execution failed" ELSE "Function execution failed"

Provisioning(k) == {c \in CallIds : calls[c].kind = k /\ calls[c].pc \in {"sftpWait", "writing"}}

\* the smallest call slot not yet used
FreeCall(c) == calls[c].pc = "idle" /\ \A c2 \in CallIds : c2 < c => calls[c2].pc # "idle"

\* a continuation that asks for the process channel without getClient (a faulty variant)
AfterRunnerNoGetClient(c, rec) ==
    /\ calls' = [calls EXCEPT ![c] = [rec EXCEPT !.pc = "execWait"]]
    /\ nExec' = nExec + 1

\* after ensure...RunnerScript returned ok(path): getClient, then client.exec(`node ${path}`)
AfterRunner(c, rec) ==
    IF ~connected
    THEN /\ calls' = [calls EXCEPT ![c] = [rec EXCEPT !.pc = "done", !.res = CallNotConnectedClient]]
         /\ nExec' = nExec
    ELSE /\ calls' = [calls EXCEPT ![c] = [rec EXCEPT !.pc = "execWait"]]
         /\ nExec' = nExec + 1

\* an ensure...RunnerScript that never looks at the memoized path (a faulty variant)
ensureRunnerNoMemo(c, rec) ==
    LET k == rec.kind IN
    /\ overlap' = [overlap EXCEPT ![k] = @ \/ Provisioning(k) # {}]
    /\ \E p \in PathIds :
            IF ~connected
            THEN /\ calls' = [calls EXCEPT ![c] =
                        [rec EXCEPT !.pc = "done", !.res = CallNotConnectedClient]]
                 /\ UNCHANGED <<nSftp, nExec>>
            ELSE /\ calls' = [calls EXCEPT ![c] = [rec EXCEPT !.pc = "sftpWait", !.path = p]]
                 /\ nSftp' = nSftp + 1
                 /\ nExec' = nExec

\* ensureCodeRunnerScript / ensureFunctionRunnerScript up to its first suspension,
\* and, when the path is memoized, the rest of execute / executeFunction up to client.exec
ensureRunner(c, rec) ==
    LET k == rec.kind IN
    /\ overlap' = [overlap EXCEPT ![k] = @ \/ Provisioning(k) # {}]
    /\ IF runnerPath[k] # 0
       THEN /\ AfterRunner(c, [rec EXCEPT !.path = runnerPath[k], !.live = TRUE])
            /\ nSftp' = nSftp
       ELSE \E p \in PathIds :
            IF ~connected
            THEN /\ calls' = [calls EXCEPT ![c] =
                        [rec EXCEPT !.pc = "done", !.res = CallNotConnectedClient]]
                 /\ UNCHANGED <<nSftp, nExec>>
            ELSE /\ calls' = [calls EXCEPT ![c] = [rec EXCEPT !.pc = "sftpWait", !.path = p]]
                 /\ nSftp' = nSftp + 1
                 /\ nExec' = nExec

\* RemoteExecutor.execute(code)
execute(c, code) == ensureRunner(c, [IdleCall EXCEPT !.kind = "Code", !.code = code])

\* RemoteExecutor.executeFunction(modulePath, functionName, args)
executeFunction(c, modulePath, functionName, args) ==
    ensureRunner(c, [IdleCall EXCEPT !.kind = "Function", !.modulePath = modulePath,
                                     !.functionName = functionName, !.args = args])

SftpOkInterpolates(c) ==
    /\ calls[c].pc = "sftpWait"
    /\ connected
    /\ calls' = [calls EXCEPT ![c].pc = "writing", ![c].up = TRUE,
                     ![c].script = RunnerScript(calls[c].kind)
                                     \o <<calls[c].code, calls[c].modulePath, calls[c].functionName>>]
    /\ UNCHANGED <<runnerPath, files, deleted, overlap, nExec, nSftp, dreq, mreq>>
    /\ UNCHANGED <<connVars, proxyVars, decodeVars, configVars>>

\* a getSftp callback that goes on to client.exec without waiting for the write
\* stream's 'close' (a faulty variant)
SftpOkStartsRunner(c) ==
    /\ calls[c].pc = "sftpWait"
    /\ connected
    /\ runnerPath' = [runnerPath EXCEPT ![calls[c].kind] = calls[c].path]
    /\ calls' = [calls EXCEPT ![c] = [calls[c] EXCEPT !.pc = "execWait", !.up = TRUE, !.live = TRUE,
                                                      !.script = RunnerScript(calls[c].kind)]]
    /\ nExec' = nExec + 1
    /\ UNCHANGED <<files, deleted, overlap, nSftp, dreq, mreq>>
    /\ UNCHANGED <<connVars, proxyVars, decodeVars, configVars>>

\* getSftp's callback with an SFTP session: createWriteStream(scriptPath), ws.end(script)
SftpOk(c) ==
    /\ calls[c].pc = "sftpWait"
    /\ connected
    /\ calls' = [calls EXCEPT ![c].pc = "writing", ![c].up = TRUE,
                     ![c].script = RunnerScript(calls[c].kind)]
    /\ UNCHANGED <<runnerPath, files, deleted, overlap, nExec, nSftp, dreq, mreq>>
    /\ UNCHANGED <<connVars, proxyVars, decodeVars, configVars>>

\* getSftp's callback with an error: the call returns it
SftpErr(c) ==
    /\ calls[c].pc = "sftpWait"
    /\ calls' = [calls EXCEPT ![c].pc = "done",
                     ![c].res = CallErr("CONNECTION_ERROR", Msg("Failed to open SFTP session"), JUndef)]
    /\ UNCHANGED <<runnerPath, files, deleted, overlap, nExec, nSftp, dreq, mreq>>
    /\ UNCHANGED <<connVars, proxyVars, decodeVars, configVars>>

\* the write stream's 'close': memoize the path, return it, go on to client.exec
WriteClose(c) ==
    /\ calls[c].pc = "writing"
    /\ runnerPath' = [runnerPath EXCEPT ![calls[c].kind] = calls[c].path]
    /\ files' = files \cup {<<calls[c].kind, calls[c].path>>}
    /\ AfterRunner(c, [calls[c] EXCEPT !.live = TRUE])
    /\ UNCHANGED <<deleted, overlap, nSftp, dreq, mreq>>
    /\ UNCHANGED <<connVars, proxyVars, decodeVars, configVars>>

\* a write 'error' handler that memoizes the path all the same (a faulty variant)
WriteErrorMemoizes(c) ==
    /\ calls[c].pc = "writing"
    /\ calls' = [calls EXCEPT ![c].pc = "done",
                     ![c].res = CallErr("EXECUTION_ERROR", Msg(UploadFailedMsg(calls[c].kind)), JUndef)]
    /\ runnerPath' = [runnerPath EXCEPT ![calls[c].kind] = calls[c].path]
    /\ UNCHANGED <<files, deleted, overlap, nExec, nSftp, dreq, mreq>>
    /\ UNCHANGED <<connVars, proxyVars, decodeVars, configVars>>

\* the write stream's 'error': the call returns EXECUTION_ERROR, nothing is memoized
WriteError(c) ==
    /\ calls[c].pc = "writing"
    /\ calls' = [calls EXCEPT ![c].pc = "done",
                     ![c].res = CallErr("EXECUTION_ERROR", Msg(UploadFailedMsg(calls[c].kind)), JUndef)]
    /\ UNCHANGED <<runnerPath, files, deleted, overlap, nExec, nSftp, dreq, mreq>>
    /\ UNCHANGED <<connVars, proxyVars, decodeVars, configVars>>

\* params: JSON.stringify({ sandboxPath, code, streamLogs }) for execute,
\* JSON.stringify({ sandboxPath, modulePath, functionName, args, streamLogs }) for executeFunction
params(rec) ==
    [sandboxPath |-> sandboxPath, code |-> rec.code, modulePath |-> rec.modulePath,
     functionName |-> rec.functionName, args |-> rec.args, streamLogs |-> streamRemoteLogs]

\* client.exec's callback with a stream: register the listeners, write the payload, end the input
ExecOk(c) ==
    /\ calls[c].pc = "execWait"
    /\ connected
    /\ calls' = [calls EXCEPT ![c].pc = "running", ![c].wrote = TRUE,
                     ![c].payload = params(calls[c])]
    /\ UNCHANGED <<runnerPath, files, deleted, overlap, nExec, nSftp, dreq, mreq>>
    /\ UNCHANGED <<connVars, proxyVars, decodeVars, configVars>>

\* String(execErr), the text of the error the transport gave
ExecErrText == "Error: Unable to exec"

ExecErrContinues(c) ==
    /\ calls[c].pc = "execWait"
    /\ calls' = [calls EXCEPT ![c].pc = "running", ![c].execErr = TRUE, ![c].wrote = TRUE]
    /\ UNCHANGED <<runnerPath, files, deleted, overlap, nExec, nSftp, dreq, mreq>>
    /\ UNCHANGED <<connVars, proxyVars, decodeVars, configVars>>

\* client.exec's callback with an error
ExecErr(c) ==
    /\ calls[c].pc = "execWait"
    /\ calls' = [calls EXCEPT ![c].pc = "done",
                     ![c].execErr = TRUE,
                     ![c].res = CallErr("EXECUTION_ERROR", Msg(ExecFailedMsg(calls[c].kind)),
                                        Msg(ExecErrText))]
    /\ UNCHANGED <<runnerPath, files, deleted, overlap, nExec, nSftp, dreq, mreq>>
    /\ UNCHANGED <<connVars, proxyVars, decodeVars, configVars>>

\* the channel's 'close', after the data events that built stdout and stderr
ChannelClose(c, resp) ==
    /\ calls[c].pc = "running"
    /\ calls' = [calls EXCEPT ![c].pc = "done",
                     ![c].parsed = TRUE,
                     ![c].res = closeHandler(resp.out, resp.diag, FallbackMsg(calls[c].kind))]
    /\ UNCHANGED <<runnerPath, files, deleted, overlap, nExec, nSftp, dreq, mreq>>
    /\ UNCHANGED <<connVars, proxyVars, decodeVars, configVars>>

\* ------------------------------------ the channels of the calls, event by event
\* what one run of a runner may leave on its channel: an envelope, raw text with
\* diagnostics, diagnostics alone, nothing
RunnerOutputs ==
    {[out |-> Stringify(SuccessEnvelope(JNum("5"))), diag |-> <<>>],
     [out |-> <<"hello">>, diag |-> <<"real error", NL>>],
     [out |-> <<>>, diag |-> <<"boom">>],
     [out |-> <<>>, diag |-> <<>>]}

\* let stdout = ''; let stderr = '': the variables of one call's listeners
NoStream ==
    [open |-> FALSE, sentOut |-> <<>>, sentErr |-> <<>>, todoOut |-> <<>>, todoErr |-> <<>>,
     out |-> <<>>, err |-> <<>>, exit |-> 0]

\* ------------------------------------------- cleanup and disconnect
IdleDisc == [pc |-> "idle", todo |-> <<>>, rmFailed |-> FALSE, res |-> NoResult]

\* [this.runnerScriptPath, this.codeRunnerScriptPath].filter(Boolean)
cleanupFiles ==
    (IF runnerPath["Function"] # 0 THEN <<<<"Function", runnerPath["Function"]>>>> ELSE <<>>)
    \o (IF runnerPath["Code"] # 0 THEN <<<<"Code", runnerPath["Code"]>>>> ELSE <<>>)

\* the end of cleanup (both paths set to null) followed by SshConnection.disconnect()
\* up to its suspension: client.end() and once('close')
finishCleanup(d, f) ==
    /\ runnerPath' = [k \in Kinds |-> 0]
    /\ calls' = [c \in CallIds |-> [calls[c] EXCEPT !.live = FALSE]]
    /\ IF ~connected
       THEN /\ dreq' = [dreq EXCEPT ![d] = [pc |-> "done", todo |-> <<>>, rmFailed |-> f, res |-> Ok]]
            /\ closeH' = closeH
       ELSE /\ dreq' = [dreq EXCEPT ![d] = [pc |-> "ending", todo |-> <<>>, rmFailed |-> f, res |-> NoResult]]
            /\ closeH' = closeH \cup {d}

\* client.exec(`rm -f ${filePath}`) for the next file of the list
execRm(d, todo, f) ==
    /\ nExec' = nExec + 1
    /\ deleted' = deleted \cup {todo[1]}
    /\ dreq' = [dreq EXCEPT ![d] = [pc |-> "rm", todo |-> Tail(todo), rmFailed |-> f, res |-> NoResult]]

\* SshRemoteCode.disconnect(): executor.cleanup() up to its first suspension
FacadeDisconnect(d) ==
    /\ dreq[d].pc = "idle"
    /\ \A d2 \in DiscIds : d2 < d => dreq[d2].pc # "idle"
    /\ IF ~connected
       THEN /\ dreq' = [dreq EXCEPT ![d] = [pc |-> "done", todo |-> <<>>, rmFailed |-> FALSE, res |-> NotConnectedClient]]
            /\ UNCHANGED <<runnerPath, calls, closeH, nExec, deleted>>
       ELSE IF cleanupFiles = <<>>
            THEN finishCleanup(d, FALSE) /\ UNCHANGED <<nExec, deleted>>
            ELSE execRm(d, cleanupFiles, FALSE) /\ UNCHANGED <<runnerPath, calls, closeH>>
    /\ UNCHANGED <<connected, connecting, pending, timers, readyH, errorH, creq>>
    /\ UNCHANGED <<files, overlap, nSftp, mreq>>
    /\ UNCHANGED <<proxyVars, decodeVars, configVars>>

\* a callback of rm that returns the failure from cleanup and from disconnect
\* (a faulty variant)
RmCallbackReports(d, failed) ==
    /\ dreq[d].pc = "rm"
    /\ IF failed
       THEN /\ dreq' = [dreq EXCEPT ![d] = [pc |-> "done", todo |-> <<>>, rmFailed |-> TRUE,
                                             res |-> Err("EXECUTION_ERROR", "Failed to delete runner")]]
            /\ UNCHANGED <<runnerPath, calls, closeH, nExec, deleted>>
       ELSE IF dreq[d].todo # <<>>
       THEN execRm(d, dreq[d].todo, dreq[d].rmFailed) /\ UNCHANGED <<runnerPath, calls, closeH>>
       ELSE finishCleanup(d, dreq[d].rmFailed) /\ UNCHANGED <<nExec, deleted>>
    /\ UNCHANGED <<connected, connecting, pending, timers, readyH, errorH, creq>>
    /\ UNCHANGED <<files, overlap, nSftp, mreq>>
    /\ UNCHANGED <<proxyVars, decodeVars, configVars>>

\* the callback of an rm's client.exec, with or without an error (the error is
\* ignored: () => resolve()): next file, or the end of cleanup
RmCallback(d, failed) ==
    /\ dreq[d].pc = "rm"
    /\ IF dreq[d].todo # <<>>
       THEN execRm(d, dreq[d].todo, dreq[d].rmFailed \/ failed) /\ UNCHANGED <<runnerPath, calls, closeH>>
       ELSE finishCleanup(d, dreq[d].rmFailed \/ failed) /\ UNCHANGED <<nExec, deleted>>
    /\ UNCHANGED <<connected, connecting, pending, timers, readyH, errorH, creq>>
    /\ UNCHANGED <<files, overlap, nSftp, mreq>>
    /\ UNCHANGED <<proxyVars, decodeVars, configVars>>

\* the client emits 'close': the constructor's listener (connected = false) and
\* every once('close') listener of a disconnect (connected = false, resolve(ok))
TransportClose ==
    /\ connected \/ closeH # {}
    /\ connected' = FALSE
    /\ dreq' = [d \in DiscIds |->
                   IF d \in closeH /\ dreq[d].pc = "ending"
                   THEN [dreq[d] EXCEPT !.pc = "done", !.res = Ok]
                   ELSE dreq[d]]
    /\ closeH' = {}
    /\ UNCHANGED <<connecting, pending, timers, readyH, errorH, creq>>
    /\ UNCHANGED <<runnerPath, files, deleted, overlap, nExec, nSftp, calls, mreq>>
    /\ UNCHANGED <<proxyVars, decodeVars, configVars>>

\* ------------------------------------------------------------ RemoteProxy
Undefined == [t |-> "undefined", modulePath |-> "", name |-> ""]
Callable(modulePath, name) == [t |-> "callable", modulePath |-> modulePath, name |-> name]
SymbolProps == {"Symbol(Symbol.iterator)"}
Denylist == {"then", "catch", "finally"}

\* createProxy() on instance i: the cached Proxy, or a new one put in the cache
createProxy(i, ps) ==
    IF ps[i].cache # 0
    THEN /\ lastImport' = [ok |-> TRUE, code |-> "", handle |-> ps[i].cache]
         /\ handles' = handles
         /\ proxies' = ps
    ELSE /\ lastImport' = [ok |-> TRUE, code |-> "", handle |-> Len(handles) + 1]
         /\ handles' = Append(handles, ps[i].modulePath)
         /\ proxies' = [ps EXCEPT ![i].cache = Len(handles) + 1]

getTrapNoDenylist(h, prop) ==
    IF prop \in SymbolProps THEN Undefined
    ELSE Callable(handles[h], prop)

\* the get trap of the Proxy object h
getTrap(h, prop) ==
    IF prop \in SymbolProps THEN Undefined
    ELSE IF prop \in Denylist THEN Undefined
    ELSE Callable(handles[h], prop)

\* SshRemoteCode.import(modulePath)
FacadeImport(modulePath) ==
    /\ ~isConnected \/ (Len(proxies) < MaxImports /\ Len(handles) < MaxHandles)
    /\ IF ~isConnected
       THEN /\ lastImport' = [ok |-> FALSE, code |-> "NOT_CONNECTED", handle |-> 0]
            /\ UNCHANGED <<proxies, handles>>
       ELSE createProxy(Len(proxies) + 1, Append(proxies, [modulePath |-> modulePath, cache |-> 0]))
    /\ UNCHANGED got
    /\ UNCHANGED <<connVars, execVars, decodeVars, configVars>>

\* createProxy() called again on an existing RemoteProxy instance
CreateProxyAgain(i) ==
    /\ i \in 1..Len(proxies)
    /\ proxies[i].cache # 0 \/ Len(handles) < MaxHandles
    /\ createProxy(i, proxies)
    /\ UNCHANGED got
    /\ UNCHANGED <<connVars, execVars, decodeVars, configVars>>

\* clearCache() on instance i
ClearCache(i) ==
    /\ i \in 1..Len(proxies)
    /\ proxies[i].cache # 0
    /\ proxies' = [proxies EXCEPT ![i].cache = 0]
    /\ UNCHANGED <<handles, lastImport, got>>
    /\ UNCHANGED <<connVars, execVars, decodeVars, configVars>>

\* reading property prop of handle h (no invocation)
ReadProp(h, prop) ==
    /\ h \in 1..Len(handles)
    /\ got' = getTrap(h, prop)
    /\ UNCHANGED <<proxies, handles, lastImport>>
    /\ UNCHANGED <<connVars, execVars, decodeVars, configVars>>

\* a call of RemoteExecutor.executeFunction(modulePath, functionName, args)
CallFunction(c, modulePath, functionName, args) ==
    /\ FreeCall(c)
    /\ executeFunction(c, modulePath, functionName, args)
    /\ UNCHANGED <<runnerPath, files, deleted, dreq, mreq>>
    /\ UNCHANGED <<connVars, proxyVars, decodeVars, configVars>>

\* a callable that forwards its arguments in reverse order (a faulty variant)
callableBodyReversed(c, f, args) ==
    CallFunction(c, f.modulePath, f.name, [i \in 1..Len(args) |-> args[Len(args) + 1 - i]])

\* invoking the callable last read, with arguments args:
\* async (...args) => this.executor.executeFunction(this.modulePath, prop, args)
callableBody(c, f, args) == CallFunction(c, f.modulePath, f.name, args)

InvokeCallable(c, args) ==
    /\ got.t = "callable"
    /\ callableBody(c, got, args)

\* SshRemoteCode.execute(code)
FacadeExecute(c, code) ==
    /\ FreeCall(c)
    /\ IF ~isConnected
       THEN /\ calls' = [calls EXCEPT ![c] =
                   [IdleCall EXCEPT !.kind = "Code", !.code = code, !.pc = "done",
                                    !.res = CallNotConnectedFacade]]
            /\ UNCHANGED <<overlap, nExec, nSftp>>
       ELSE execute(c, code)
    /\ UNCHANGED <<runnerPath, files, deleted, dreq, mreq>>
    /\ UNCHANGED <<connVars, proxyVars, decodeVars, configVars>>

\* ------------------------------- runCommand, uploadFile, downloadFile
ExitCodes == {0, 1}
IdleOp == [op |-> "none", pc |-> "idle", res |-> [ok |-> FALSE, code |-> "PENDING", exit |-> 0]]
OpErr(code) == [ok |-> FALSE, code |-> code, exit |-> 0]
OpOk(exit) == [ok |-> TRUE, code |-> "", exit |-> exit]
FreeOp(o) == mreq[o].pc = "idle" /\ \A o2 \in OpIds : o2 < o => mreq[o2].pc # "idle"

opUnchanged ==
    /\ UNCHANGED <<runnerPath, files, deleted, overlap, calls, dreq>>
    /\ UNCHANGED <<connVars, proxyVars, decodeVars, configVars>>

\* SshRemoteCode.runCommand(command) -> SshConnection.executeCommand up to client.exec
FacadeRunCommand(o) ==
    /\ FreeOp(o)
    /\ IF ~isConnected
       THEN /\ mreq' = [mreq EXCEPT ![o] = [op |-> "runCommand", pc |-> "done", res |-> OpErr("NOT_CONNECTED")]]
            /\ nExec' = nExec
       ELSE /\ mreq' = [mreq EXCEPT ![o] = [IdleOp EXCEPT !.op = "runCommand", !.pc = "execWait"]]
            /\ nExec' = nExec + 1
    /\ nSftp' = nSftp
    /\ opUnchanged

\* SshRemoteCode.connect() with preBuildCommand set, after connection.connect()
\* returned ok: buildSandbox(buildCommand) -> executeCommand up to client.exec
FacadeConnectBuild(o) ==
    /\ FreeOp(o)
    /\ \E r \in ConnIds : creq[r].pc = "done" /\ creq[r].res = Ok
    /\ IF ~connected
       THEN /\ mreq' = [mreq EXCEPT ![o] = [op |-> "preBuild", pc |-> "done", res |-> OpErr("NOT_CONNECTED")]]
            /\ nExec' = nExec
       ELSE /\ mreq' = [mreq EXCEPT ![o] = [IdleOp EXCEPT !.op = "preBuild", !.pc = "execWait"]]
            /\ nExec' = nExec + 1
    /\ nSftp' = nSftp
    /\ opUnchanged

\* SshRemoteCode.uploadFile / downloadFile -> SshConnection.getSftp up to client.sftp
FacadeTransfer(o, op) ==
    /\ FreeOp(o)
    /\ IF ~isConnected
       THEN /\ mreq' = [mreq EXCEPT ![o] = [op |-> op, pc |-> "done", res |-> OpErr("NOT_CONNECTED")]]
            /\ nSftp' = nSftp
       ELSE /\ mreq' = [mreq EXCEPT ![o] = [IdleOp EXCEPT !.op = op, !.pc = "sftpWait"]]
            /\ nSftp' = nSftp + 1
    /\ nExec' = nExec
    /\ opUnchanged

\* executeCommand: client.exec's callback
CommandStarted(o) ==
    /\ mreq[o].pc = "execWait"
    /\ connected
    /\ mreq' = [mreq EXCEPT ![o].pc = "running"]
    /\ UNCHANGED <<nExec, nSftp>>
    /\ opUnchanged

CommandNotStarted(o) ==
    /\ mreq[o].pc = "execWait"
    /\ mreq' = [mreq EXCEPT ![o].pc = "done", ![o].res = OpErr("COMMAND_ERROR")]
    /\ UNCHANGED <<nExec, nSftp>>
    /\ opUnchanged

CommandCloseIgnoresExit(o, exit) ==
    /\ mreq[o].pc = "running"
    /\ mreq' = [mreq EXCEPT ![o].pc = "done", ![o].res = OpOk(exit)]
    /\ UNCHANGED <<nExec, nSftp>>
    /\ opUnchanged

\* executeCommand: the stream's 'close' with the exit code: ok({stdout, stderr, code});
\* runCommand returns it; connect() returns COMMAND_ERROR with the build's data
\* as details when build.data.code !== 0
CommandClose(o, exit) ==
    /\ mreq[o].pc = "running"
    /\ mreq' = [mreq EXCEPT ![o].pc = "done",
                    ![o].res = IF mreq[o].op = "preBuild" /\ exit # 0
                               THEN [ok |-> FALSE, code |-> "COMMAND_ERROR", exit |-> exit]
                               ELSE OpOk(exit)]
    /\ UNCHANGED <<nExec, nSftp>>
    /\ opUnchanged

TransferErrorCode(op) == IF op = "uploadFile" THEN "UPLOAD_ERROR" ELSE "DOWNLOAD_ERROR"

\* uploadFile / downloadFile: getSftp's callback; localFound is fs.existsSync(localFile)
TransferSftp(o, sftpOk, localFound) ==
    /\ mreq[o].pc = "sftpWait"
    /\ sftpOk => connected
    /\ mreq' = IF ~sftpOk
               THEN [mreq EXCEPT ![o].pc = "done", ![o].res = OpErr("CONNECTION_ERROR")]
               ELSE IF mreq[o].op = "uploadFile" /\ ~localFound
               THEN [mreq EXCEPT ![o].pc = "done", ![o].res = OpErr("UPLOAD_ERROR")]
               ELSE [mreq EXCEPT ![o].pc = "piping"]
    /\ UNCHANGED <<nExec, nSftp>>
    /\ opUnchanged

\* uploadFile / downloadFile: the write stream's 'close', or an 'error' of either stream
TransferEnd(o, success) ==
    /\ mreq[o].pc = "piping"
    /\ mreq' = [mreq EXCEPT ![o].pc = "done",
                   ![o].res = IF success THEN OpOk(0) ELSE OpErr(TransferErrorCode(mreq[o].op))]
    /\ UNCHANGED <<nExec, nSftp>>
    /\ opUnchanged

\* ------------------------------------------------------ the session machine
InitSession ==
    /\ connected = FALSE
    /\ connecting = FALSE
    /\ pending = {}
    /\ timers = {}
    /\ readyH = {}
    /\ errorH = {}
    /\ closeH = {}
    /\ creq = [r \in ConnIds |-> [pc |-> "idle", att |-> 0, res |-> NoResult]]
    /\ runnerPath = [k \in Kinds |-> 0]
    /\ files = {}
    /\ deleted = {}
    /\ overlap = [k \in Kinds |-> FALSE]
    /\ nExec = 0
    /\ nSftp = 0
    /\ calls = [c \in CallIds |-> IdleCall]
    /\ streams = [c \in CallIds |-> NoStream]
    /\ dreq = [d \in DiscIds |-> IdleDisc]
    /\ mreq = [o \in OpIds |-> IdleOp]
    /\ proxies = <<>>
    /\ handles = <<>>
    /\ lastImport = [ok |-> FALSE, code |-> "NONE", handle |-> 0]
    /\ got = Undefined

\* the configuration the session was made from; no create is followed
SessionCreated ==
    /\ config = SessionConfig
    /\ keyFileExists = TRUE
    /\ validated = NotValidated
    /\ created = NotCreated

NotDecoded == [done |-> FALSE, residual |-> <<>>, parsed |-> JUndef, outcome |-> CallPending]

\* no channel is followed chunk by chunk
NoChannel ==
    /\ diag = [lines |-> <<>>, tail |-> <<>>]
    /\ undelivered = [out |-> <<>>, err |-> <<>>]
    /\ ended = FALSE
    /\ observer = <<>>
    /\ streamRemoteLogs = FALSE

Init ==
    /\ InitSession
    /\ SessionCreated
    /\ inp = [lead |-> <<>>, env |-> 0, trail |-> <<>>]
    /\ stdout = <<>>
    /\ stderr = <<>>
    /\ decoded = NotDecoded
    /\ NoChannel

ConnNext ==
    \/ \E r \in ConnIds : ConnectAlready(r) \/ ConnectJoin(r) \/ ConnectStart(r)
    \/ \E r \in ConnIds : PollTick(r) \/ ConnectTimeout(r)
    \/ \E a \in ConnIds : TransportReady(a) \/ AttemptError(a)
    \/ SessionError
    \/ TransportEnd
    \/ TransportClose

CallNext ==
    \/ \E c \in CallIds, code \in Codes : FacadeExecute(c, code)
    \/ \E c \in CallIds, a \in ArgLists : InvokeCallable(c, a)
    \/ \E c \in CallIds : SftpOk(c) \/ SftpErr(c) \/ WriteClose(c) \/ WriteError(c)
    \/ \E c \in CallIds : ExecOk(c) \/ ExecErr(c)
    \/ \E c \in CallIds, resp \in Responses : ChannelClose(c, resp)

DiscNext ==
    \/ \E d \in DiscIds : FacadeDisconnect(d)
    \/ \E d \in DiscIds, failed \in BOOLEAN : RmCallback(d, failed)

ProxyNext ==
    \/ \E m \in ModulePaths : FacadeImport(m)
    \/ \E i \in ProxyIds : CreateProxyAgain(i) \/ ClearCache(i)
    \/ \E h \in HandleIds, prop \in PropNames \cup SymbolProps : ReadProp(h, prop)

OpNext ==
    \/ \E o \in OpIds : FacadeRunCommand(o) \/ FacadeConnectBuild(o)
    \/ \E o \in OpIds, op \in {"uploadFile", "downloadFile"} : FacadeTransfer(o, op)
    \/ \E o \in OpIds : CommandStarted(o) \/ CommandNotStarted(o)
    \/ \E o \in OpIds, exit \in ExitCodes : CommandClose(o, exit)
    \/ \E o \in OpIds, b1 \in BOOLEAN, b2 \in BOOLEAN : TransferSftp(o, b1, b2)
    \/ \E o \in OpIds, b \in BOOLEAN : TransferEnd(o, b)

ConfigNext == Validate \/ Create

Next == ConnNext \/ CallNext \/ DiscNext \/ ProxyNext \/ OpNext \/ ConfigNext

Spec == Init /\ [][Next]_vars

\* ------------------------------------------------------------- scenarios
\* The whole machine (Spec) is the product of five families of operations.
\* Each scenario below runs some of the families together, every action whole.

\* connect, ready and close, without joins, errors, timeouts and 'end'
ConnMin ==
    \/ \E r \in ConnIds : ConnectStart(r)
    \/ \E a \in ConnIds : TransportReady(a)
    \/ TransportClose

\* the connection lifecycle: connects, joins, timers, transport events, disconnect
NextConn == ConnNext \/ (\E d \in DiscIds : FacadeDisconnect(d))
SpecConn == Init /\ [][NextConn]_vars
\* the same with the timers of connect: an armed setTimeout fires unless it is
\* cleared, a setInterval callback keeps running until it clears itself
SpecConnLive ==
    /\ SpecConn
    /\ \A r \in ConnIds : WF_vars(ConnectTimeout(r)) /\ WF_vars(PollTick(r))

\* the executor: calls of both kinds, provisioning, cleanup
NextExec ==
    \/ ConnMin
    \/ \E c \in CallIds : FacadeExecute(c, SomeCode) \/ CallFunction(c, "./m", "foo", <<1, 2>>)
    \/ \E c \in CallIds : SftpOk(c) \/ SftpErr(c) \/ WriteClose(c) \/ WriteError(c)
    \/ \E c \in CallIds : ExecOk(c) \/ ExecErr(c)
    \/ \E c \in CallIds, resp \in Responses : ChannelClose(c, resp)
    \/ DiscNext
SpecExec == Init /\ [][NextExec]_vars

\* create: validateConfig on configurations with fields given or omitted
Configs ==
    [host : {"", "10.0.0.1"}, port : {0, 22, 2222}, username : {"", "user"},
     privateKey : {"", "-----BEGIN KEY", "/home/user/id_rsa"}, password : {"", "secret"},
     sandboxPath : {"", "/sandbox"}, connectTimeout : {0, 5000}, readyTimeout : {0, 7000}]

InitConfig ==
    /\ InitSession
    /\ config \in Configs
    /\ keyFileExists \in BOOLEAN
    /\ validated = NotValidated
    /\ created = NotCreated
    /\ inp = [lead |-> <<>>, env |-> 0, trail |-> <<>>]
    /\ stdout = <<>>
    /\ stderr = <<>>
    /\ decoded = NotDecoded
    /\ NoChannel
SpecConfig == InitConfig /\ [][ConfigNext]_vars

\* the payloads: calls of both kinds with different codes, module paths and
\* arguments, their uploads and their process channels
NextPayload ==
    \/ ConnMin
    \/ \E c \in CallIds, code \in Codes : FacadeExecute(c, code)
    \/ \E c \in CallIds, m \in ModulePaths, a \in ArgLists : CallFunction(c, m, "foo", a)
    \/ \E c \in CallIds : SftpOk(c) \/ WriteClose(c) \/ ExecOk(c)
    \/ \E c \in CallIds : ChannelClose(c, [out |-> Stringify(SuccessEnvelope(JNum("5"))), diag |-> <<>>])
SpecPayload == Init /\ [][NextPayload]_vars

\* the proxy: imports, handles, property reads, invocations
NextProxy == ConnMin \/ ProxyNext \/ (\E c \in CallIds, a \in ArgLists : InvokeCallable(c, a))
SpecProxy == Init /\ [][NextProxy]_vars

\* callables of one handle invoked while connected and after the session was lost
NextInvoke ==
    \/ ConnMin
    \/ FacadeImport("./m")
    \/ \E h \in HandleIds : ReadProp(h, "foo")
    \/ \E c \in CallIds : InvokeCallable(c, <<1, 2>>)
    \/ \E c \in CallIds : SftpOk(c) \/ WriteClose(c) \/ ExecOk(c)
    \/ \E c \in CallIds : ChannelClose(c, [out |-> Stringify(SuccessEnvelope(JNum("5"))), diag |-> <<>>])
SpecInvoke == Init /\ [][NextInvoke]_vars

\* the facade: every public operation, from any connection state
NextFacade ==
    \/ ConnMin
    \/ \E c \in CallIds : FacadeExecute(c, SomeCode)
    \/ \E d \in DiscIds : FacadeDisconnect(d)
    \/ \E m \in ModulePaths : FacadeImport(m)
    \/ OpNext
SpecFacade == Init /\ [][NextFacade]_vars

\* ------------------------------------------- the decoder on collected text
\* envelopes a runner may write
Envelopes ==
    <<SuccessEnvelope(JNum("5")), SuccessEnvelope(JStr(<<"x">>)), SuccessEnvelope(JUndef),
      SuccessEnvelope(JObj([k |-> JNum("1")])), FailureEnvelope("bad input", "at f", "Error"),
      FailureEnvelope("", "at f", "Error"),
      SuccessEnvelope(JArr(<<JNum("1"), JStr(<<"x">>)>>))>>

\* pieces of other text found on the output stream
NoiseUnits ==
    {<<LB>>, <<RB>>, <<KSuccess>>, <<SP>>, <<NL>>, <<"hello">>, <<"3">>,
     Stringify(SuccessEnvelope(JNum("1"))),
     <<LB, KSuccess, COLON>>,
     <<LB, "\"k\"", COLON, KSuccess, RB>>}

RECURSIVE NoiseUpTo(_)
NoiseUpTo(n) ==
    IF n = 0 THEN {<<>>}
    ELSE NoiseUpTo(n - 1) \cup {u \o t : u \in NoiseUnits, t \in NoiseUpTo(n - 1)}
Noise == NoiseUpTo(MaxNoise)

LogLine(level, args) ==
    <<SENTINEL>> \o Stringify(JObj([type |-> JStr(<<level>>), args |-> JArr(args)]))

\* diagnostic streams
StderrInputs ==
    {<<>>, <<"boom">>, <<"real error", NL>>,
     LogLine("log", <<JStr(<<"x">>)>>) \o <<NL>>,
     LogLine("log", <<JStr(<<"x">>)>>) \o <<NL, "real error", NL>>,
     <<SENTINEL, "hello", NL>>}

\* inp.env is the place of the envelope in Envelopes, 0 when the runner wrote none
EnvelopeText(i) == IF i = 0 THEN <<>> ELSE Stringify(Envelopes[i])

InitDecode ==
    /\ InitSession
    /\ SessionCreated
    /\ inp \in [lead : Noise, env : 0..Len(Envelopes), trail : Noise]
    /\ stdout = inp.lead \o EnvelopeText(inp.env) \o inp.trail
    /\ stderr \in StderrInputs
    /\ decoded = NotDecoded
    /\ NoChannel

\* the 'close' listener of a function call on the collected stdout and stderr
Decode ==
    /\ ~decoded.done
    /\ decoded' = [done |-> TRUE,
                   residual |-> filterLogLines(stderr),
                   parsed |-> parseResult(stdout, filterLogLines(stderr)),
                   outcome |-> closeHandler(stdout, stderr, FallbackMsg("Function"))]
    /\ UNCHANGED <<inp, stdout, stderr, diag, undelivered, ended, observer, streamRemoteLogs, streams>>
    /\ UNCHANGED <<connVars, execVars, proxyVars, configVars>>

SpecDecode == InitDecode /\ [][Decode]_vars

\* ================================================================ properties

\* ------------------------------------------------------------------ C1
\* the function-mode calls made so far
FunctionCalls == {c \in CallIds : calls[c].pc # "idle" /\ calls[c].kind = "Function"}

\* C1: reading a property other than then/catch/finally of a handle bound to
\* modulePath yields a callable and performs no call; invoking that callable with
\* args performs exactly one executeFunction call, carrying that modulePath, the
\* property name as functionName and args in the given order.
C1_OneCallPerInvocation ==
    [][/\ \A h \in HandleIds, prop \in PropNames \ Denylist :
            ReadProp(h, prop) =>
                /\ got' = Callable(handles[h], prop)
                /\ calls' = calls /\ nExec' = nExec /\ nSftp' = nSftp
       /\ \A c \in CallIds, a \in ArgLists :
            InvokeCallable(c, a) =>
                /\ c \notin FunctionCalls
                /\ FunctionCalls' = FunctionCalls \cup {c}
                /\ \A c2 \in CallIds \ {c} : calls'[c2] = calls[c2]
                /\ calls'[c].modulePath = got.modulePath
                /\ calls'[c].functionName = got.name
                /\ calls'[c].args = a]_vars

\* a callable read from a handle bound to "./n" was invoked with <<2, 1>>
C1_Witness ==
    /\ got = Callable("./n", "foo")
    /\ \E h \in 1..Len(handles) : handles[h] = "./n"
    /\ \E c \in CallIds :
        /\ calls[c].pc # "idle"
        /\ calls[c].kind = "Function"
        /\ calls[c].modulePath = "./n"
        /\ calls[c].functionName = "foo"
        /\ calls[c].args = <<2, 1>>

\* ------------------------------------------------------------------ C2
\* one connect request was issued so far: every handle belongs to the one session
OneSession == Cardinality({r \in ConnIds : creq[r].pc # "idle"}) = 1

\* handles of modulePath still held in the cache of a RemoteProxy (never cleared since)
CachedHandles(modulePath) ==
    {proxies[i].cache : i \in {j \in 1..Len(proxies) :
                                  proxies[j].modulePath = modulePath /\ proxies[j].cache # 0}}

\* C2: importing a module path that was imported before in the same connected
\* session, with no cache clear in between, returns the handle returned before.
C2_SameHandle ==
    [][\A m \in ModulePaths :
        (OneSession /\ isConnected /\ CachedHandles(m) # {} /\ FacadeImport(m)) =>
            (lastImport'.ok /\ lastImport'.handle \in CachedHandles(m))]_vars


\* ------------------------------------------------------------------ C3
\* C3: in every reachable state at most one transport connect attempt is in
\* flight, whatever the interleaving of connect requests, ready and error events
\* and timeouts.
C3_OneAttemptInFlight == Cardinality(pending) <= 1

\* ------------------------------------------------------------------ C4
ConnectionTimeout == Err("CONNECTION_ERROR", "Connection timeout")

\* the connect request r was answered by its timer
TimedOut(r) == creq[r].pc = "done" /\ creq[r].res = ConnectionTimeout

\* C4: a connect whose transport is not ready within connectTimeout resolves with
\* a ConnectionError reporting a timeout, and a ready event of the timed-out
\* attempt arriving later does not move the session to Connected.
C4_TimeoutAbandons ==
    [][/\ \A r \in ConnIds : ConnectTimeout(r) => TimedOut(r)'
       /\ \A a \in ConnIds : (TimedOut(a) /\ TransportReady(a)) => (connected' => connected)]_vars

\* ------------------------------------------------------------------ C5
\* C5: while the session is not connected, import, execute, runCommand,
\* uploadFile, downloadFile and disconnect each return a NOT_CONNECTED error and
\* request no process channel (client.exec) and no bulk-transfer channel (client.sftp).
C5_RefusedWhenNotConnected ==
    [][~connected =>
        /\ \A m \in ModulePaths : FacadeImport(m) =>
                /\ ~lastImport'.ok /\ lastImport'.code = "NOT_CONNECTED"
                /\ handles' = handles
                /\ nExec' = nExec /\ nSftp' = nSftp
        /\ \A c \in CallIds : FacadeExecute(c, SomeCode) =>
                /\ calls'[c].pc = "done" /\ calls'[c].res.code = "NOT_CONNECTED"
                /\ nExec' = nExec /\ nSftp' = nSftp
        /\ \A o \in OpIds : FacadeRunCommand(o) =>
                /\ mreq'[o].pc = "done" /\ mreq'[o].res.code = "NOT_CONNECTED"
                /\ nExec' = nExec /\ nSftp' = nSftp
        /\ \A o \in OpIds, op \in {"uploadFile", "downloadFile"} : FacadeTransfer(o, op) =>
                /\ mreq'[o].pc = "done" /\ mreq'[o].res.code = "NOT_CONNECTED"
                /\ nExec' = nExec /\ nSftp' = nSftp
        /\ \A d \in DiscIds : FacadeDisconnect(d) =>
                /\ dreq'[d].pc = "done" /\ dreq'[d].res.code = "NOT_CONNECTED"
                /\ nExec' = nExec /\ nSftp' = nSftp]_vars

\* every kind of operation was refused while not connected, a connect attempt
\* being in flight, and no channel was ever requested
C5_Witness ==
    /\ ~connected /\ connecting
    /\ nExec = 0 /\ nSftp = 0
    /\ lastImport.code = "NOT_CONNECTED"
    /\ calls[1].pc = "done" /\ calls[1].res.code = "NOT_CONNECTED"
    /\ mreq[1].pc = "done" /\ mreq[1].op = "downloadFile" /\ mreq[1].res.code = "NOT_CONNECTED"
    /\ dreq[1].pc = "done" /\ dreq[1].res.code = "NOT_CONNECTED"

\* ------------------------------------------------------------------ C6
\* the calls of kind k to which ensure...RunnerScript returned a path, since the
\* paths were last reset
Provisioned(k) == {c \in CallIds : calls[c].kind = k /\ calls[c].live}

\* C6: when no call of a kind started while another call of the kind was
\* provisioning, the calls of that kind got the same remote path and exactly one
\* of them uploaded the runner.
C6_OneUpload ==
    \A k \in Kinds :
        ~overlap[k] =>
            /\ \A c1, c2 \in Provisioned(k) : calls[c1].path = calls[c2].path
            /\ Provisioned(k) # {} =>
                    Cardinality({c \in Provisioned(k) : calls[c].up}) = 1

\* two successive code calls: the first uploaded, the second reused its path
C6_Witness ==
    /\ ~overlap["Code"]
    /\ Provisioned("Code") = {1, 2}
    /\ calls[1].up /\ ~calls[2].up
    /\ calls[1].path = calls[2].path
    /\ nSftp = 1

\* ------------------------------------------------------------------ C7
\* the call c starts in this step
StartsCall(c) == calls[c].pc = "idle" /\ calls'[c].pc # "idle"

\* the result of a call whose provisioning failed
ProvisioningErrors(k) ==
    <<CallErr("CONNECTION_ERROR", Msg("Failed to open SFTP session"), JUndef),
      CallErr("EXECUTION_ERROR", Msg(UploadFailedMsg(k)), JUndef)>>

ProvisioningFailed(c) ==
    /\ calls[c].pc = "done"
    /\ \E n \in 1..2 : calls[c].res = ProvisioningErrors(calls[c].kind)[n]

\* C7: when the bulk-transfer channel cannot be opened or the write fails, the
\* call returns an error, no path is memoized by the failure, no process channel
\* is requested; and while no path is memoized for the kind the next call of the
\* kind asks for a bulk-transfer channel again instead of starting the runner.
C7_FailedProvisioning ==
    [][/\ \A c \in CallIds : (SftpErr(c) \/ WriteError(c)) =>
            /\ ProvisioningFailed(c)'
            /\ runnerPath' = runnerPath
            /\ nExec' = nExec
       /\ \A c0, c \in CallIds :
            (/\ ProvisioningFailed(c0)
             /\ StartsCall(c)
             /\ calls'[c].kind = calls[c0].kind
             /\ runnerPath[calls[c0].kind] = 0
             /\ connected) =>
                /\ calls'[c].pc = "sftpWait"
                /\ nSftp' = nSftp + 1
                /\ nExec' = nExec]_vars

\* the write of the first function call failed, nothing was memoized, and the
\* second function call asked for a bulk-transfer channel again
C7_Witness ==
    /\ calls[1].kind = "Function" /\ calls[1].up /\ ProvisioningFailed(1)
    /\ runnerPath["Function"] = 0
    /\ calls[2].kind = "Function" /\ calls[2].pc = "sftpWait"
    /\ nSftp = 2 /\ nExec = 0

\* ------------------------------------------------------------ C8, C9, C10
\* p carries the success flag and the payload of the envelope e
SameEnvelope(p, e) ==
    /\ Get(p, "success") = Get(e, "success")
    /\ Get(p, "result") = Get(e, "result")
    /\ Get(p, "error") = Get(e, "error")

\* the value the call resolves with when its envelope is e
\* the outcome has the flag and the payload of envelope e
SameOutcome(o, e) ==
    /\ o.ok = Truthy(Get(e, "success"))
    /\ o.ok => o.value = Get(e, "result")
    /\ ~o.ok => o.code = "EXECUTION_ERROR" /\ o.details = Get(e, "error")

OutcomeOf(e) ==
    IF Truthy(Get(e, "success")) THEN CallOk(Get(e, "result"))
    ELSE CallErr("EXECUTION_ERROR", Get(Get(e, "error"), "message"), Get(e, "error"))

\* C8: when the collected output is exactly one well-formed envelope, decode
\* returns that envelope's success flag and payload, whatever the residual
\* diagnostic text is.
C8_EnvelopeIsAuthoritative ==
    (decoded.done /\ inp.env # 0 /\ inp.lead = <<>> /\ inp.trail = <<>>) =>
        /\ SameEnvelope(decoded.parsed, Envelopes[inp.env])
        /\ SameOutcome(decoded.outcome, Envelopes[inp.env])

\* a success envelope with non-empty residual diagnostics was decoded as a success
C8_Witness ==
    /\ decoded.done
    /\ inp = [lead |-> <<>>, env |-> 1, trail |-> <<>>]
    /\ decoded.residual = <<"real error", NL>>
    /\ decoded.outcome = CallOk(JNum("5"))

\* the places <<i, j>> of the substrings of s that are envelopes: JSON objects
\* with a top-level "success" key
EnvelopeSpans(s) ==
    {m \in (1..Len(s)) \X (1..Len(s)) :
        /\ m[1] < m[2]
        /\ s[m[1]] = LB
        /\ s[m[2]] = RB
        /\ LET p == JSONParse(SubSeq(s, m[1], m[2]))
           IN p.ok /\ \E n \in 1..Len(p.val.v) : p.val.v[n] = "success"}

\* the envelope of s that ends last
LastEnvelope(s) ==
    LET m == CHOOSE x \in EnvelopeSpans(s) : \A y \in EnvelopeSpans(s) : y[2] <= x[2]
    IN JSONParse(SubSeq(s, m[1], m[2])).val

\* C9 as stated: for output made of arbitrary leading noise, a well-formed
\* envelope and arbitrary trailing noise, decode returns the last envelope
\* present in the output.
C9_LastEnvelopeAmongNoise ==
    (decoded.done /\ inp.env # 0) => decoded.parsed = LastEnvelope(stdout)

\* C9, amended: when the leading noise holds no "{" and the trailing noise no "}",
\* decode returns the envelope.
C9_EnvelopeAmongBraceFreeNoise ==
    (/\ decoded.done
     /\ inp.env # 0
     /\ \A i \in 1..Len(inp.lead) : inp.lead[i] # LB
     /\ \A i \in 1..Len(inp.trail) : inp.trail[i] # RB) =>
        /\ SameEnvelope(decoded.parsed, Envelopes[inp.env])
        /\ SameOutcome(decoded.outcome, Envelopes[inp.env])

\* a failure envelope between a "}" and a "{" was decoded
C9_Witness ==
    /\ decoded.done
    /\ inp = [lead |-> <<RB>>, env |-> 5, trail |-> <<LB>>]
    /\ decoded.outcome.code = "EXECUTION_ERROR"
    /\ decoded.outcome.message = Msg("bad input")

\* a failure that carries only the message text
MessageOnly(text) == JObj([success |-> JBool(FALSE), error |-> JObj([message |-> JStr(text)])])

\* C10 as stated: when the output contains no envelope and the residual
\* diagnostic text is non-empty, decode returns a failure whose message is that
\* text and which has no name and no stack.
C10_ResidualIsTheMessage ==
    (decoded.done /\ EnvelopeSpans(stdout) = {} /\ decoded.residual # <<>>) =>
        /\ decoded.parsed = MessageOnly(decoded.residual)
        /\ decoded.outcome.code = "EXECUTION_ERROR"
        /\ decoded.outcome.message = JStr(decoded.residual)

\* s holds a "{", later "success" in quotes, later a "}"
BraceRegion(s) ==
    \E i, j, k \in 1..Len(s) : i < j /\ j < k /\ s[i] = LB /\ s[j] = KSuccess /\ s[k] = RB

\* C10, amended: when the output holds no "{" ... "success" ... "}" region and
\* the residual diagnostic text is non-empty, decode returns a failure whose
\* message is that text and which has no name and no stack.
C10_ResidualWhenNoBraceRegion ==
    (decoded.done /\ ~BraceRegion(stdout) /\ decoded.residual # <<>>) =>
        /\ decoded.parsed = MessageOnly(decoded.residual)
        /\ decoded.outcome =
               CallErr("EXECUTION_ERROR", JStr(decoded.residual),
                       JObj([message |-> JStr(decoded.residual)]))

\* output "hello" with diagnostic "boom" was decoded as the failure "boom"
C10_Witness ==
    /\ decoded.done
    /\ stdout = <<"hello">>
    /\ stderr = <<"boom">>
    /\ decoded.parsed = MessageOnly(<<"boom">>)
    /\ decoded.outcome.message = JStr(<<"boom">>)

\* ------------------------------------------------------------------ C11
\* the success the fallback steps give for output s: the value of the trimmed
\* text when it is JSON, the trimmed text itself when it is not, no value when
\* nothing is left
BareOutcome(s) ==
    IF Trim(s) = <<>> THEN CallOk(JUndef)
    ELSE IF JSONParse(Trim(s)).ok THEN CallOk(JSONParse(Trim(s)).val)
    ELSE CallOk(JStr(Trim(s)))

\* C11 as stated: for every output that contains no envelope and empty residual
\* diagnostics, decode returns success: the parsed value when the trimmed output
\* is JSON, the trimmed raw text when it is not, no value when it is empty.
C11_BareOutputIsSuccess ==
    (decoded.done /\ EnvelopeSpans(stdout) = {} /\ decoded.residual = <<>>) =>
        decoded.outcome = BareOutcome(stdout)

\* C11, amended: the same for every output that holds no "{" ... "success" ... "}"
\* region; "3" gives the number 3, "hello" the string "hello", an empty output no value.
C11_BareOutputWhenNoBraceRegion ==
    (decoded.done /\ ~BraceRegion(stdout) /\ decoded.residual = <<>>) =>
        /\ decoded.outcome = BareOutcome(stdout)
        /\ stdout = <<"3">> => decoded.outcome = CallOk(JNum("3"))
        /\ stdout = <<"hello">> => decoded.outcome = CallOk(JStr(<<"hello">>))
        /\ stdout = <<KSuccess>> => decoded.outcome = CallOk(JStr(<<"success">>))
        /\ stdout = <<>> => decoded.outcome = CallOk(JUndef)

\* output "3" with a diagnostic stream of one log line was decoded as the number 3
C11_Witness ==
    /\ decoded.done
    /\ stdout = <<"3">>
    /\ stderr # <<>>
    /\ decoded.residual = <<>>
    /\ decoded.outcome = CallOk(JNum("3"))

\* ------------------------------------------------ one channel, chunk by chunk
MaxLines == 2         \* lines the runner writes on the diagnostic stream

LogLevels == {"log", "error", "warn", "info"}

\* what one line gives in processRemoteLogs: the console call made, if any.
\* A line that does not start with the sentinel is skipped; JSON.parse of the
\* remainder, logData.type of null and the spread of logData.args may throw,
\* and the catch ignores it.
logEvent(line) ==
    IF ~startsWithSentinel(line) THEN <<>>
    ELSE LET p == JSONParse(Tail(line)) IN
         IF ~p.ok \/ p.val.t = "null" THEN <<>>
         ELSE LET type == Get(p.val, "type")
                  args == Get(p.val, "args")
              IN IF /\ type.t = "str" /\ Len(type.v) = 1 /\ type.v[1] \in LogLevels
                    /\ args.t \in {"arr", "str"}
                 THEN <<[level |-> type.v[1], args |-> args]>>
                 ELSE <<>>

RECURSIVE logEvents(_)
logEvents(ls) == IF Len(ls) = 0 THEN <<>> ELSE logEvent(ls[1]) \o logEvents(Tail(ls))

\* processRemoteLogs(chunk): the console calls it makes, in order
processRemoteLogs(chunk) == logEvents(SplitLines(chunk))

\* lines the runner may write on the diagnostic stream
LineKinds ==
    {LogLine("log", <<JStr(<<"x">>)>>),
     LogLine("warn", <<>>),
     <<SENTINEL, "hello">>,
     LogLine("log", <<JStr(<<"x">>)>>) \o <<"hello">>,
     <<"real error">>}

RECURSIVE LinesUpTo(_)
LinesUpTo(n) ==
    IF n = 0 THEN {<<>>}
    ELSE LinesUpTo(n - 1) \cup {<<l>> \o t : l \in LineKinds, t \in LinesUpTo(n - 1)}

\* the text of lines, each ended by a newline
RECURSIVE Terminated(_)
Terminated(ls) == IF Len(ls) = 0 THEN <<>> ELSE ls[1] \o <<NL>> \o Terminated(Tail(ls))

DiagText(d) == Terminated(d.lines) \o d.tail

InitChannel ==
    /\ InitSession
    /\ SessionCreated
    /\ inp \in [lead : {<<>>}, env : {0, 1}, trail : {<<>>}]
    /\ diag \in [lines : LinesUpTo(MaxLines), tail : {<<>>, <<"boom">>}]
    /\ undelivered = [out |-> EnvelopeText(inp.env), err |-> DiagText(diag)]
    /\ stdout = <<>>
    /\ stderr = <<>>
    /\ ended = FALSE
    /\ observer = <<>>
    /\ streamRemoteLogs \in BOOLEAN
    /\ decoded = NotDecoded

\* stream.on('data'): the next lexemes of the output arrive, one chunk of any length
StdoutData ==
    /\ ~decoded.done
    /\ \E n \in 1..Len(undelivered.out) :
        /\ stdout' = stdout \o SubSeq(undelivered.out, 1, n)
        /\ undelivered' = [undelivered EXCEPT !.out = SubSeq(@, n + 1, Len(@))]
    /\ UNCHANGED <<inp, stderr, decoded, diag, ended, observer, streamRemoteLogs, streams>>
    /\ UNCHANGED <<connVars, execVars, proxyVars, configVars>>

\* stream.stderr.on('data'): the next chunk of the diagnostic stream arrives, of any length
StderrData ==
    /\ ~decoded.done
    /\ \E n \in 1..Len(undelivered.err) :
        LET chunk == SubSeq(undelivered.err, 1, n) IN
        /\ stderr' = stderr \o chunk
        /\ observer' = IF streamRemoteLogs THEN observer \o processRemoteLogs(chunk) ELSE observer
        /\ undelivered' = [undelivered EXCEPT !.err = SubSeq(@, n + 1, Len(@))]
    /\ UNCHANGED <<inp, stdout, decoded, diag, ended, streamRemoteLogs, streams>>
    /\ UNCHANGED <<connVars, execVars, proxyVars, configVars>>

StreamEndDecides ==
    /\ ~decoded.done
    /\ ~ended
    /\ undelivered.out = <<>>
    /\ ended' = TRUE
    /\ decoded' = [done |-> TRUE,
                   residual |-> filterLogLines(stderr),
                   parsed |-> parseResult(stdout, filterLogLines(stderr)),
                   outcome |-> closeHandler(stdout, stderr, FallbackMsg("Function"))]
    /\ UNCHANGED <<inp, stdout, stderr, diag, undelivered, observer, streamRemoteLogs, streams>>
    /\ UNCHANGED <<connVars, execVars, proxyVars, configVars>>

\* the stream's 'end' event, after the last output data: no listener is registered for it
StreamEnd ==
    /\ ~decoded.done
    /\ ~ended
    /\ undelivered.out = <<>>
    /\ ended' = TRUE
    /\ UNCHANGED <<inp, stdout, stderr, decoded, diag, undelivered, observer, streamRemoteLogs, streams>>
    /\ UNCHANGED <<connVars, execVars, proxyVars, configVars>>

NextChannel ==
    \/ StdoutData
    \/ StderrData
    \/ StreamEnd
    \/ Decode
SpecChannel == InitChannel /\ [][NextChannel]_vars

\* ------------------------------------ the channels of several calls
\* the runner started by call c writes its output and its diagnostics (remote side)
CallOutput(c, resp) ==
    /\ calls[c].pc = "running"
    /\ ~streams[c].open
    /\ streams' = [streams EXCEPT ![c] =
            [NoStream EXCEPT !.open = TRUE, !.sentOut = resp.out, !.sentErr = resp.diag,
                             !.todoOut = resp.out, !.todoErr = resp.diag]]
    /\ UNCHANGED <<inp, stdout, stderr, decoded, diag, undelivered, ended, observer, streamRemoteLogs>>
    /\ UNCHANGED <<connVars, execVars, proxyVars, configVars>>

\* a 'data' listener that appends to one buffer shared by the calls in flight
\* (a faulty variant)
CallStdoutDataShared(c, n) ==
    /\ streams[c].open
    /\ calls[c].pc = "running"
    /\ n \in 1..Len(streams[c].todoOut)
    /\ streams' = [c2 \in CallIds |->
            IF c2 = c
            THEN [streams[c] EXCEPT !.out = @ \o SubSeq(streams[c].todoOut, 1, n),
                                    !.todoOut = SubSeq(@, n + 1, Len(@))]
            ELSE IF streams[c2].open /\ calls[c2].pc = "running"
            THEN [streams[c2] EXCEPT !.out = @ \o SubSeq(streams[c].todoOut, 1, n)]
            ELSE streams[c2]]
    /\ UNCHANGED <<inp, stdout, stderr, decoded, diag, undelivered, ended, observer, streamRemoteLogs>>
    /\ UNCHANGED <<connVars, execVars, proxyVars, configVars>>

\* stream.on('data') of call c with the next n pieces of its output: stdout += d.toString()
CallStdoutData(c, n) ==
    /\ streams[c].open
    /\ calls[c].pc = "running"
    /\ n \in 1..Len(streams[c].todoOut)
    /\ streams' = [streams EXCEPT ![c].out = @ \o SubSeq(streams[c].todoOut, 1, n),
                                  ![c].todoOut = SubSeq(@, n + 1, Len(@))]
    /\ UNCHANGED <<inp, stdout, stderr, decoded, diag, undelivered, ended, observer, streamRemoteLogs>>
    /\ UNCHANGED <<connVars, execVars, proxyVars, configVars>>

\* stream.stderr.on('data') of call c with the next n pieces of its diagnostics:
\* stderr += chunk; if (this.streamRemoteLogs) this.processRemoteLogs(chunk)
CallStderrData(c, n) ==
    /\ streams[c].open
    /\ calls[c].pc = "running"
    /\ n \in 1..Len(streams[c].todoErr)
    /\ streams' = [streams EXCEPT ![c].err = @ \o SubSeq(streams[c].todoErr, 1, n),
                                  ![c].todoErr = SubSeq(@, n + 1, Len(@))]
    /\ observer' = IF streamRemoteLogs
                   THEN observer \o processRemoteLogs(SubSeq(streams[c].todoErr, 1, n))
                   ELSE observer
    /\ UNCHANGED <<inp, stdout, stderr, decoded, diag, undelivered, ended, streamRemoteLogs>>
    /\ UNCHANGED <<connVars, execVars, proxyVars, configVars>>

\* a 'close' listener that fails the call on a non-zero exit status (a faulty variant)
CallCloseChecksExit(c, exit) ==
    /\ streams[c].open
    /\ calls[c].pc = "running"
    /\ (streams[c].todoOut = <<>> /\ streams[c].todoErr = <<>>) \/ ~connected
    /\ calls' = [calls EXCEPT ![c].pc = "done",
                     ![c].parsed = TRUE,
                     ![c].res = IF exit # 0
                                THEN CallErr("EXECUTION_ERROR", Msg(FallbackMsg(calls[c].kind)), JUndef)
                                ELSE closeHandler(streams[c].out, streams[c].err,
                                                  FallbackMsg(calls[c].kind))]
    /\ streams' = [streams EXCEPT ![c].exit = exit]
    /\ UNCHANGED <<runnerPath, files, deleted, overlap, nExec, nSftp, dreq, mreq>>
    /\ UNCHANGED <<inp, stdout, stderr, decoded, diag, undelivered, ended, observer, streamRemoteLogs>>
    /\ UNCHANGED <<connVars, proxyVars, configVars>>

\* stream.on('close') of call c, given the exit status: after the last data
\* event, or earlier when the transport was lost
CallClose(c, exit) ==
    /\ streams[c].open
    /\ calls[c].pc = "running"
    /\ (streams[c].todoOut = <<>> /\ streams[c].todoErr = <<>>) \/ ~connected
    /\ calls' = [calls EXCEPT ![c].pc = "done",
                     ![c].parsed = TRUE,
                     ![c].res = closeHandler(streams[c].out, streams[c].err,
                                             FallbackMsg(calls[c].kind))]
    /\ streams' = [streams EXCEPT ![c].exit = exit]
    /\ UNCHANGED <<runnerPath, files, deleted, overlap, nExec, nSftp, dreq, mreq>>
    /\ UNCHANGED <<inp, stdout, stderr, decoded, diag, undelivered, ended, observer, streamRemoteLogs>>
    /\ UNCHANGED <<connVars, proxyVars, configVars>>

\* several calls in flight on one session, their channels event by event
NextStreams ==
    \/ ConnMin
    \/ \E c \in CallIds : FacadeExecute(c, SomeCode) \/ CallFunction(c, "./m", "foo", <<1, 2>>)
    \/ \E c \in CallIds : SftpOk(c) \/ WriteClose(c) \/ ExecOk(c)
    \/ \E c \in CallIds, resp \in RunnerOutputs : CallOutput(c, resp)
    \/ \E c \in CallIds : \E n \in 1..Len(streams[c].todoOut) : CallStdoutData(c, n)
    \/ \E c \in CallIds : \E n \in 1..Len(streams[c].todoErr) : CallStderrData(c, n)
    \/ \E c \in CallIds, exit \in ExitCodes : CallClose(c, exit)
SpecStreams == Init /\ [][NextStreams]_vars


\* the whole of both streams was delivered before the close
Drained == undelivered = [out |-> <<>>, err |-> <<>>]

\* ------------------------------------------------------------------ C12
\* the lines of ls that do not start with the sentinel
NonSentinel(ls) == SelectSeq(ls, LAMBDA l : l = <<>> \/ l[1] # SENTINEL)

\* C12 as stated: for a diagnostic stream made of newline-terminated lines the
\* residual text is the lines that do not start with the sentinel, joined by
\* newlines, with no other character added.
C12_ResidualIsJoinedLines ==
    (decoded.done /\ Drained /\ diag.tail = <<>>) =>
        decoded.residual = JoinLines(NonSentinel(diag.lines))

\* C12, amended: the residual text is the lines that do not start with the
\* sentinel, each followed by its newline.
C12_ResidualKeepsNewlines ==
    (decoded.done /\ Drained /\ diag.tail = <<>>) =>
        decoded.residual = Terminated(NonSentinel(diag.lines))

\* one log line followed by the line "real error" left the residual "real error\n"
C12_Witness ==
    /\ decoded.done
    /\ Drained
    /\ diag = [lines |-> <<LogLine("log", <<JStr(<<"x">>)>>), <<"real error">>>>, tail |-> <<>>]
    /\ decoded.residual = <<"real error", NL>>

\* ---------------------------------------------------------------------------
\* C13: with log streaming enabled, once the whole diagnostic stream was
\* delivered, the observer has received the event of every well-formed log
\* line, once each and in stream order, and nothing else, whatever the chunks
\* the stream arrived in.
C13_LogsForwardedOncePerLine ==
    (streamRemoteLogs /\ undelivered.err = <<>>)
        => observer = logEvents(diag.lines \o <<diag.tail>>)

\* ---------------------------------------------------------------------------
\* a line that the log channel forwards: the sentinel followed by a log record
WellFormedLog(line) == logEvent(line) # <<>>

\* the lines of a diagnostic stream with its well-formed log lines taken out
WithoutLogs(ls) == SelectSeq(ls, LAMBDA l : ~WellFormedLog(l))

\* C14: the decoded outcome of a call is the outcome of the same output with
\* the diagnostic stream that has every well-formed log line removed; a
\* stream made of log lines only decodes as the empty stream does.
C14_LogLinesDoNotChangeOutcome ==
    (decoded.done /\ Drained) =>
        decoded.outcome =
            closeHandler(stdout,
                         DiagText([lines |-> WithoutLogs(diag.lines), tail |-> diag.tail]),
                         FallbackMsg("Function"))

\* a call with no output and two log lines on the diagnostic stream succeeded
\* with no value, as it does with an empty diagnostic stream
C14_Witness ==
    /\ decoded.done
    /\ Drained
    /\ inp.env = 0
    /\ diag = [lines |-> <<LogLine("warn", <<>>), LogLine("log", <<JStr(<<"x">>)>>)>>,
               tail |-> <<>>]
    /\ decoded.outcome = CallOk(JUndef)
    /\ decoded.outcome = closeHandler(<<>>, <<>>, FallbackMsg("Function"))

\* ---------------------------------------------------------------------------
\* a sentinel line whose remainder is not valid JSON
Malformed(line) == startsWithSentinel(line) /\ ~JSONParse(Tail(line)).ok

\* C15: a sentinel line whose remainder is not valid JSON gives no log event
\* (a stream without well-formed log lines leaves the observer empty), is
\* absent from the residual text, and does not change the outcome of the call.
C15_MalformedLogLinesAreDropped ==
    /\ (/\ streamRemoteLogs
        /\ undelivered.err = <<>>
        /\ \A i \in 1..Len(diag.lines) : ~WellFormedLog(diag.lines[i]))
            => observer = <<>>
    /\ (decoded.done /\ Drained) =>
        /\ \A i \in 1..Len(decoded.residual) : decoded.residual[i] # SENTINEL
        /\ decoded.outcome =
            closeHandler(stdout,
                         DiagText([lines |-> SelectSeq(diag.lines, LAMBDA l : ~Malformed(l)),
                                   tail |-> diag.tail]),
                         FallbackMsg("Function"))

\* ---------------------------------------------------------------------------
\* C16: the result of a call is decided once, by the close of the channel and
\* by no other event: the step that decides it delivers no data and is not the
\* stream's end, it decodes everything the data events have accumulated, and
\* a decided result never changes.
C16_DecidedOnceAtClose ==
    [][/\ decoded.done => decoded' = decoded
       /\ decoded' # decoded =>
            /\ ~decoded.done /\ decoded'.done
            /\ <<stdout, stderr, undelivered, ended>>' = <<stdout, stderr, undelivered, ended>>
            /\ stdout \o undelivered.out = EnvelopeText(inp.env)
            /\ stderr \o undelivered.err = DiagText(diag)
            /\ decoded'.outcome = closeHandler(stdout, stderr, FallbackMsg("Function"))
       /\ <<stdout, stderr, ended>>' # <<stdout, stderr, ended>> => decoded' = decoded]_vars

\* the channel closed after the end of the output and the whole of both
\* streams, and the call was decided with the value of the envelope
C16_Witness ==
    /\ decoded.done
    /\ ended
    /\ Drained
    /\ inp.env = 1
    /\ Len(diag.lines) = MaxLines
    /\ diag.tail = <<"boom">>
    /\ decoded.outcome = CallOk(JNum("5"))

\* ---------------------------------------------------------------------------
\* C17: a call whose process channel the transport refused to open is over,
\* with the error EXECUTION_ERROR of its kind; it wrote no payload to the
\* channel and decoded nothing.
C17_RejectedChannel ==
    \A c \in CallIds :
        calls[c].execErr =>
            /\ calls[c].pc = "done"
            /\ calls[c].res = CallErr("EXECUTION_ERROR", Msg(ExecFailedMsg(calls[c].kind)),
                                      Msg(ExecErrText))
            /\ ~calls[c].wrote
            /\ ~calls[c].parsed

\* the channel of a function call was refused after its runner was uploaded
C17_Witness ==
    /\ calls[1].execErr
    /\ calls[1].kind = "Function"
    /\ calls[1].up
    /\ calls[1].res.code = "EXECUTION_ERROR"
    /\ calls[1].res.message = Msg("Failed to start remote function execution")

\* ---------------------------------------------------------------------------
\* the output is one failure envelope and nothing else
FailureEnvelopeAlone ==
    /\ decoded.done
    /\ inp.env # 0 /\ inp.lead = <<>> /\ inp.trail = <<>>
    /\ ~Truthy(Get(Envelopes[inp.env], "success"))

\* C18 as stated: when the runner wrote a failure envelope with message m, the
\* call's error has code EXECUTION_ERROR, message m and the envelope's error
\* object as details.
C18_FailureMessageIsEnvelopeMessage ==
    FailureEnvelopeAlone => decoded.outcome = OutcomeOf(Envelopes[inp.env])

\* C18, amended: the error has code EXECUTION_ERROR and the envelope's error
\* object as details; its message is m when m is not empty, and the text
\* "Function execution failed" when m is empty.
C18_FailureMessageOrFallback ==
    FailureEnvelopeAlone =>
        LET e == Get(Envelopes[inp.env], "error")
            m == Get(e, "message")
        IN decoded.outcome =
               CallErr("EXECUTION_ERROR",
                       IF m = JStr(<<>>) THEN Msg("Function execution failed") ELSE m,
                       e)

\* a failure envelope with message "bad input" was decoded, with residual diagnostics
C18_Witness ==
    /\ decoded.done
    /\ inp = [lead |-> <<>>, env |-> 5, trail |-> <<>>]
    /\ stderr = <<"boom">>
    /\ decoded.outcome.code = "EXECUTION_ERROR"
    /\ decoded.outcome.message = Msg("bad input")
    /\ decoded.outcome.details =
           JObj([message |-> Msg("bad input"), stack |-> Msg("at f"), name |-> Msg("Error")])

\* ---------------------------------------------------------------------------
\* C19: when the output is one well-formed success envelope and the residual
\* diagnostic text is empty, the call succeeds with a value equal to the
\* envelope's result (result 5 gives the value 5).
C19_RoundTrip ==
    (/\ decoded.done
     /\ inp.env # 0 /\ inp.lead = <<>> /\ inp.trail = <<>>
     /\ Truthy(Get(Envelopes[inp.env], "success"))
     /\ decoded.residual = <<>>) =>
        decoded.outcome = CallOk(Get(Envelopes[inp.env], "result"))

\* the envelope with an array as result was decoded, the diagnostic stream
\* holding one log line only
C19_Witness ==
    /\ decoded.done
    /\ inp = [lead |-> <<>>, env |-> 7, trail |-> <<>>]
    /\ stderr = LogLine("log", <<JStr(<<"x">>)>>) \o <<NL>>
    /\ decoded.residual = <<>>
    /\ decoded.outcome = CallOk(JArr(<<JNum("1"), JStr(<<"x">>)>>))

\* ---------------------------------------------------------------------------
\* C20: while a session is the only one and no disconnect has begun, at most
\* one runner file of each kind has been created, also when first-use calls of
\* the same kind run concurrently.
C20_OneRunnerFilePerKind ==
    (OneSession /\ \A d \in DiscIds : dreq[d].pc = "idle") =>
        \A k \in Kinds : Cardinality({f \in files : f[1] = k}) <= 1

\* ---------------------------------------------------------------------------
\* C21: a memoized runner path does not outlive its session: at the moment a
\* connect succeeds no path of an earlier session is memoized, so that the
\* first call of each kind uploads its runner again.
C21_PathsEndWithSession ==
    [][(~connected /\ connected') => \A k \in Kinds : runnerPath'[k] = 0]_vars

\* ---------------------------------------------------------------------------
\* C22: the program text uploaded for a runner is the constant of its kind,
\* whatever the call's code, module path, function name and arguments; these
\* and the sandbox path are in the payload written to the channel's input.
C22_RunnerTextIsConstant ==
    \A c \in CallIds :
        /\ calls[c].up => calls[c].script = RunnerScript(calls[c].kind)
        /\ calls[c].wrote =>
              /\ calls[c].payload.sandboxPath = sandboxPath
              /\ calls[c].payload.code = calls[c].code
              /\ calls[c].payload.modulePath = calls[c].modulePath
              /\ calls[c].payload.functionName = calls[c].functionName
              /\ calls[c].payload.args = calls[c].args
        /\ \A c2 \in CallIds :
              (calls[c].up /\ calls[c2].up /\ calls[c].kind = calls[c2].kind)
                  => calls[c].script = calls[c2].script

\* two function calls on different modules with different arguments uploaded
\* the same text and wrote different payloads
C22_Witness ==
    /\ calls[1].kind = "Function" /\ calls[2].kind = "Function"
    /\ calls[1].up /\ calls[2].up
    /\ calls[1].wrote /\ calls[2].wrote
    /\ calls[1].modulePath # calls[2].modulePath
    /\ calls[1].args # calls[2].args
    /\ calls[1].script = calls[2].script
    /\ calls[1].payload # calls[2].payload

\* ---------------------------------------------------------------------------
\* the configuration has host, username and sandbox path, and its key, when
\* it names a file, names one that exists
WellFormedButCredentials(cfg) ==
    /\ cfg.host # "" /\ cfg.username # "" /\ cfg.sandboxPath # ""
    /\ (cfg.privateKey # "" /\ ~IsKeyContent(cfg.privateKey)) => keyFileExists

\* C23: validate of a configuration with host, username, sandbox path and a
\* credential returns it with port 22, connect timeout 10000 and ready timeout
\* 20000 where omitted and the given values kept; with neither privateKey nor
\* password it ends in a tagged error value of code VALIDATION_ERROR, not in
\* an exception, and no session is created.
C23_ValidateNormalizesOrFails ==
    (created.done /\ WellFormedButCredentials(config)) =>
        IF config.privateKey = "" /\ config.password = ""
        THEN /\ ~validated.threw
             /\ created.kind # "thrown"
             /\ ~created.ok /\ created.code = "VALIDATION_ERROR"
             /\ ~created.session
        ELSE /\ ~validated.threw
             /\ validated.value.port = (IF config.port = 0 THEN 22 ELSE config.port)
             /\ validated.value.connectTimeout =
                    (IF config.connectTimeout = 0 THEN 10000 ELSE config.connectTimeout)
             /\ validated.value.readyTimeout =
                    (IF config.readyTimeout = 0 THEN 20000 ELSE config.readyTimeout)

\* ---------------------------------------------------------------------------
\* C24: a transport error, close or end leaves the session not connected, and
\* a session that is not connected becomes connected only by the ready of a
\* connect attempt.
C24_NotConnectedUntilReady ==
    [][/\ (\/ SessionError
           \/ TransportEnd
           \/ TransportClose
           \/ \E a \in ConnIds : AttemptError(a)) => ~connected'
       /\ (~connected /\ connected') => \E a \in ConnIds : TransportReady(a)]_vars

\* the session of the first connect was lost and the second connect is still
\* in flight: not connected
C24_Witness ==
    /\ creq[1].pc = "done" /\ creq[1].res = Ok
    /\ creq[2].pc = "owner" /\ 2 \in pending
    /\ \A d \in DiscIds : dreq[d].pc = "idle"
    /\ ~connected

\* ---------------------------------------------------------------------------
\* C25 as stated: a command of runCommand or the pre-build command of connect
\* that exits with a non-zero status is reported as a COMMAND_ERROR.
C25_NonZeroExitIsCommandError ==
    [][\A o \in OpIds, exit \in ExitCodes :
          (CommandClose(o, exit) /\ exit # 0) =>
              ~mreq'[o].res.ok /\ mreq'[o].res.code = "COMMAND_ERROR"]_vars

\* C25, amended: the pre-build command of connect that exits with a non-zero
\* status is reported as a COMMAND_ERROR carrying that status; a command of
\* runCommand that exits, with any status, is returned as a success value
\* carrying the status.
C25_ExitStatusOfCommands ==
    [][\A o \in OpIds, exit \in ExitCodes :
          CommandClose(o, exit) =>
              /\ mreq[o].op \in {"runCommand", "preBuild"}
              /\ mreq'[o].res.exit = exit
              /\ mreq'[o].res.ok = (mreq[o].op = "runCommand" \/ exit = 0)
              /\ ~mreq'[o].res.ok => mreq'[o].res.code = "COMMAND_ERROR"]_vars

\* the pre-build command of a connect exited with status 1
C25_Witness ==
    /\ mreq[1].op = "preBuild"
    /\ mreq[1].pc = "done"
    /\ mreq[1].res = [ok |-> FALSE, code |-> "COMMAND_ERROR", exit |-> 1]

\* ---------------------------------------------------------------------------
\* C26: reading then, catch, finally or a symbol-keyed property of a module
\* handle gives a value that is not callable and makes no remote call: no call
\* starts and no channel is requested.
C26_ReservedPropsAreNotCallable ==
    [][\A h \in HandleIds, prop \in {"then", "catch", "finally"} \cup SymbolProps :
          ReadProp(h, prop) =>
              /\ got'.t # "callable"
              /\ got' = Undefined
              /\ calls' = calls
              /\ nExec' = nExec /\ nSftp' = nSftp]_vars

\* after a function of a handle was called, a reserved property of the handle
\* was read: the value is undefined
C26_Witness ==
    /\ Len(handles) >= 1
    /\ calls[1].pc # "idle"
    /\ calls[2].pc = "idle"
    /\ got = Undefined

\* ---------------------------------------------------------------------------
\* C27: a connect request that joined an in-flight attempt is answered as the
\* attempt was: when the request resolves, the attempt has ended, with success
\* if it ended ready and with a CONNECTION_ERROR if it ended in error or
\* timeout, whatever happened in between.
C27_JoinFollowsAttempt ==
    [][\A r \in ConnIds :
          (creq[r].pc = "join" /\ creq'[r].pc = "done") =>
              LET o == creq[r].att IN
              /\ creq[o].pc = "done"
              /\ creq'[r].res.ok = creq[o].res.ok
              /\ ~creq'[r].res.ok => creq'[r].res.code = "CONNECTION_ERROR"]_vars

\* ------------------------------------------------------------------ C28
\* the output holds a "{" ... "success" ... "}" region and the text from its
\* first "{" to the last "}" of the output is not JSON
UnparseableRegion(s) == jsonMatch(s) # <<>> /\ ~JSONParse(jsonMatch(s)).ok

C29_DeleteAttemptedForEveryUpload ==
    [][\A d \in DiscIds :
          (FacadeDisconnect(d) /\ connected /\ OneSession) =>
              \A f \in files \ deleted :
                  \E i \in 1..Len(cleanupFiles) : cleanupFiles[i] = f]_vars

\* ------------------------------------------------------------------ C30
\* the calls c1 and c2 of one kind both uploaded a runner: the second started
\* before the upload of the first was memoized
Raced(c1, c2) ==
    /\ c1 # c2
    /\ calls[c1].kind = calls[c2].kind
    /\ calls[c1].up /\ calls[c1].live
    /\ calls[c2].up /\ calls[c2].live

\* the call c asked for its process channel
AskedForChannel(c) ==
    calls[c].pc \in {"execWait", "running"} \/ calls[c].execErr \/ calls[c].wrote

\* C30: when two first-use calls of one kind race, each asks for its process
\* channel at a path whose upload has completed, the path of one of the racing
\* calls is the one memoized for the kind, and the close of a call's channel completes that
\* call, and no other, with the result decoded from that channel's output.
C30_RacingFirstUsesAreCorrect ==
    [][/\ \A c \in CallIds :
            AskedForChannel(c)' => <<calls'[c].kind, calls'[c].path>> \in files'
       /\ \A c1, c2 \in CallIds :
            (Raced(c1, c2)' /\ \A d \in DiscIds : dreq'[d].pc = "idle") =>
                /\ runnerPath'[calls'[c1].kind] # 0
                /\ \E c \in CallIds :
                      /\ c = c1 \/ Raced(c, c1)'
                      /\ runnerPath'[calls'[c1].kind] = calls'[c].path
       /\ \A c \in CallIds, resp \in Responses :
            ChannelClose(c, resp) =>
                /\ calls'[c].res = closeHandler(resp.out, resp.diag, FallbackMsg(calls[c].kind))
                /\ \A c2 \in CallIds \ {c} : calls'[c2] = calls[c2]]_vars

\* two code calls raced, uploaded to different paths and completed, the first
\* with the value 5 and the second with the failure "bad input"; the path of
\* the second is the one memoized
C30_Witness ==
    /\ Raced(1, 2)
    /\ calls[1].path # calls[2].path
    /\ {<<"Code", calls[1].path>>, <<"Code", calls[2].path>>} \subseteq files
    /\ calls[1].pc = "done" /\ calls[1].parsed
    /\ calls[2].pc = "done" /\ calls[2].parsed
    /\ calls[1].res = CallOk(JNum("5"))
    /\ calls[2].res.code = "EXECUTION_ERROR"
    /\ calls[2].res.message = Msg("bad input")
    /\ runnerPath["Code"] = calls[2].path
    /\ \A d \in DiscIds : dreq[d].pc = "idle"

\* ------------------------------------------------------------------ C31
\* a is the beginning of b
IsPrefix(a, b) == Len(a) <= Len(b) /\ SubSeq(b, 1, Len(a)) = a

\* C31: with several calls in flight, the text each call's listeners collected
\* is the beginning of what its own runner wrote (all of it once nothing is
\* left to deliver) and a completed call's result is the decoding of the text
\* of its own channel, whatever the other calls received and whether or not
\* they have closed.
C31_ResultFromOwnChannelOnly ==
    \A c \in CallIds :
        streams[c].open =>
            /\ IsPrefix(streams[c].out, streams[c].sentOut)
            /\ IsPrefix(streams[c].err, streams[c].sentErr)
            /\ streams[c].out \o streams[c].todoOut = streams[c].sentOut
            /\ streams[c].err \o streams[c].todoErr = streams[c].sentErr
            /\ calls[c].pc = "done" =>
                  /\ calls[c].res = closeHandler(streams[c].out, streams[c].err,
                                                 FallbackMsg(calls[c].kind))
                  /\ (streams[c].todoOut = <<>> /\ streams[c].todoErr = <<>>) =>
                         calls[c].res = closeHandler(streams[c].sentOut, streams[c].sentErr,
                                                     FallbackMsg(calls[c].kind))

\* the second call completed with the failure "boom" of its own channel while
\* the first, whose runner wrote the value 5, had received a part of its
\* output and was still running
C31_Witness ==
    /\ calls[1].pc = "running" /\ streams[1].open
    /\ streams[1].sentOut = Stringify(SuccessEnvelope(JNum("5")))
    /\ streams[1].out # <<>> /\ streams[1].todoOut # <<>>
    /\ calls[2].pc = "done" /\ calls[2].parsed /\ streams[2].open
    /\ streams[2].sentErr = <<"boom">>
    /\ calls[2].res.code = "EXECUTION_ERROR"
    /\ calls[2].res.message = JStr(<<"boom">>)

\* ------------------------------------------------------------------ C39
\* the channel of call c has closed
Closed(c) == streams[c].open /\ calls[c].pc = "done" /\ calls[c].parsed

\* C39: the outcome of a call whose channel closed is decided by the collected
\* output and diagnostic text alone, whatever exit status came with the close:
\* with a success envelope of value 5 it is the success 5, with empty output
\* and empty diagnostics it is a success with no value, and two calls of one
\* kind that collected the same text have the same outcome.
C39_ExitStatusNeverChangesOutcome ==
    /\ \A c \in CallIds :
          Closed(c) =>
              /\ calls[c].res = closeHandler(streams[c].out, streams[c].err,
                                             FallbackMsg(calls[c].kind))
              /\ streams[c].out = Stringify(SuccessEnvelope(JNum("5"))) =>
                     calls[c].res = CallOk(JNum("5"))
              /\ (streams[c].out = <<>> /\ streams[c].err = <<>>) =>
                     calls[c].res = CallOk(JUndef)
    /\ \A c1, c2 \in CallIds :
          (/\ Closed(c1) /\ Closed(c2)
           /\ calls[c1].kind = calls[c2].kind
           /\ streams[c1].out = streams[c2].out
           /\ streams[c1].err = streams[c2].err) => calls[c1].res = calls[c2].res

\* two channels closed with exit status 1: the call with the success envelope
\* returned 5, the call with no output and no diagnostics returned no value
C39_Witness ==
    /\ Closed(1) /\ Closed(2)
    /\ streams[1].exit = 1 /\ streams[2].exit = 1
    /\ streams[1].out = Stringify(SuccessEnvelope(JNum("5")))
    /\ calls[1].res = CallOk(JNum("5"))
    /\ streams[2].sentOut = <<>> /\ streams[2].sentErr = <<>>
    /\ calls[2].res = CallOk(JUndef)

\* ------------------------------------------------------------------ C32
\* C32: the session is Disconnected, Connecting or Connected and never two of
\* them: this.connected and this.connecting are never both true.
C32_ConnectedXorConnecting == ~(connected /\ connecting)

\* the attempt of the first connect became ready while the second connect,
\* which had joined it, was still polling: Connected and no longer Connecting
C32_Witness ==
    /\ creq[1].pc = "done" /\ creq[1].res = Ok
    /\ creq[2].pc = "join" /\ creq[2].att = 1
    /\ connected /\ ~connecting

\* ------------------------------------------------------------------ C33
\* C33: when armed timers fire and poll ticks run, every connect request that
\* started or joined an attempt is eventually answered, with success or with a
\* CONNECTION_ERROR, and this.connecting does not stay true for ever.
C33_EveryConnectResolves ==
    /\ \A r \in ConnIds :
          (creq[r].pc \in {"owner", "join"}) ~>
              (/\ creq[r].pc = "done"
               /\ creq[r].res.ok \/ creq[r].res.code = "CONNECTION_ERROR")
    /\ connecting ~> ~connecting

\* the first connect timed out and the second, which had joined it, was
\* answered by its poll tick with a CONNECTION_ERROR
C33_Witness ==
    /\ TimedOut(1)
    /\ creq[2].pc = "done" /\ creq[2].att = 1
    /\ ~creq[2].res.ok /\ creq[2].res.code = "CONNECTION_ERROR"
    /\ ~connecting

\* ------------------------------------------------------------------ C34
\* C34: when connect returns a failure, from the connection (transport error,
\* timeout) or from the pre-build command, the session is not connected.
C34_FailedConnectLeavesNotConnected ==
    [][/\ \A r \in ConnIds :
            (creq[r].pc # "done" /\ creq'[r].pc = "done" /\ ~creq'[r].res.ok) => ~connected'
       /\ \A o \in OpIds :
            (/\ mreq[o].pc # "done"
             /\ mreq'[o].pc = "done"
             /\ mreq'[o].op = "preBuild"
             /\ ~mreq'[o].res.ok) => ~connected']_vars

\* ------------------------------------------------------------------ C35
\* C35: when a disconnect returns success the session is not connected and no
\* connect attempt issued before is left that could make it connected, and a
\* disconnect issued while a connect attempt is in flight leaves no attempt
\* in flight with a 'ready' listener that could make the session connected.
C35_DisconnectEndsEarlierAttempts ==
    [][\A d \in DiscIds :
          /\ (dreq[d].pc # "done" /\ dreq'[d].pc = "done" /\ dreq'[d].res = Ok) =>
                 ~connected' /\ (readyH' = {} \/ pending' = {})
          /\ (FacadeDisconnect(d) /\ connecting) => (readyH' = {} \/ pending' = {})]_vars

\* ------------------------------------------------------------------ C36
\* C36: once an explicit disconnect has returned success, and as long as no
\* further connect is issued, no runner path is memoized for either kind,
\* whatever calls and runner uploads were in flight during the cleanup.
C36_NoPathAfterDisconnect ==
    (OneSession /\ \E d \in DiscIds : dreq[d].pc = "done" /\ dreq[d].res = Ok) =>
        \A k \in Kinds : runnerPath[k] = 0

\* ------------------------------------------------------------------ C37
\* C37: a deletion that fails during disconnect is not reported: its callback
\* goes on with the deletion of the next file or, after the last one, clears
\* both memoized paths and ends the connection, and a disconnect during which
\* a deletion failed returns success.
C37_FailedDeletionIsNotReported ==
    [][\A d \in DiscIds :
          /\ RmCallback(d, TRUE) =>
                IF dreq[d].todo # <<>>
                THEN dreq[d].todo[1] \in deleted' /\ dreq'[d].pc = "rm"
                ELSE /\ \A k \in Kinds : runnerPath'[k] = 0
                     /\ IF connected
                        THEN dreq'[d].pc = "ending" /\ d \in closeH'
                        ELSE dreq'[d].pc = "done" /\ dreq'[d].res = Ok
          /\ (dreq'[d].pc = "done" /\ dreq'[d].rmFailed) => dreq'[d].res = Ok]_vars

\* runners of both kinds were uploaded, the deletion of the first failed, the
\* deletion of the second was attempted and the disconnect returned success
C37_Witness ==
    /\ \E d \in DiscIds : dreq[d].pc = "done" /\ dreq[d].rmFailed /\ dreq[d].res = Ok
    /\ \E p1, p2 \in PathIds : {<<"Function", p1>>, <<"Code", p2>>} \subseteq deleted
    /\ \A k \in Kinds : runnerPath[k] = 0
    /\ ~connected

\* ------------------------------------------------------------------ C38
\* C38: a callable of a module handle invoked while the session is not
\* connected returns a NOT_CONNECTED error, asks for no bulk-transfer channel
\* and no process channel and uploads nothing, with or without a memoized
\* runner path.
C38_CallableRefusedWhenNotConnected ==
    [][\A c \in CallIds, a \in ArgLists :
          (InvokeCallable(c, a) /\ ~connected) =>
              /\ calls'[c].pc = "done"
              /\ ~calls'[c].res.ok
              /\ calls'[c].res.code = "NOT_CONNECTED"
              /\ ~calls'[c].up
              /\ nSftp' = nSftp /\ nExec' = nExec
              /\ files' = files /\ runnerPath' = runnerPath]_vars

\* the first invocation ran while connected and left its runner path memoized;
\* the session was lost and the second invocation of the callable was refused
C38_Witness ==
    /\ got.t = "callable"
    /\ calls[1].kind = "Function" /\ calls[1].pc = "done" /\ calls[1].res = CallOk(JNum("5"))
    /\ runnerPath["Function"] # 0
    /\ ~connected
    /\ calls[2].kind = "Function" /\ calls[2].pc = "done"
    /\ calls[2].res.code = "NOT_CONNECTED"
    /\ nSftp = 1 /\ nExec = 1
====
